---------------------------- MODULE Spec2Model ----------------------------
(***************************************************************************)
(* Alert Evaluation Engine of Crypto_weaver: the restricted expression     *)
(* evaluator (alerts/core/dsl_engine.py), the trigger classes and their    *)
(* factory (alerts/triggers/_init_.py) and the trigger manager             *)
(* (alerts/triggers/manager.py).                                           *)
(*                                                                         *)
(* Python values are tagged tuples, the tag first, so that values of       *)
(* different Python types can be compared: <<"num", 3>>, <<"bool", TRUE>>, *)
(* <<"none">>, <<"str", "a">>, <<"list", <<...>> >>, <<"tuple", <<...>> >>,*)
(* <<"dict", << <<k, v>>, ... >> >>.  Numbers are integers.  AST nodes are *)
(* tuples too, the node class first: <<"BinOp", op, left, right>>.         *)
(***************************************************************************)
EXTENDS Integers, Sequences, FiniteSets, TLC

VARIABLES
    \* --- the DSLEngine instance ---
    engine,          \* its fields: the operators, functions and keywords tables
    \* --- DSLEngine.evaluate on one expression ---
    expr,            \* the expression tree handed to evaluate
    context,         \* the context mapping handed to evaluate
    evalOut,         \* what evaluate did: result, nodes visited, functions invoked
    epc,             \* "ready" before the call, "done" after
    \* --- one trigger instance and its factory-rebuilt twin ---
    config,          \* the config handed to TriggerFactory.create_trigger
    created,         \* "none" before creation, "ok", or the exception class raised
    trig,            \* the trigger instance
    twin,            \* create_trigger(trig.to_dict()), built right after trig
    trace,           \* every check made on trig: snapshot, outcomes, children checked
    \* --- TriggerManager ---
    triggers,        \* the registry, in dict insertion order: <<[id, trig], ...>>
    trigger_history, \* the bounded history of fired events
    ret,             \* what the last manager operation returned / did
    fired_log,       \* every event check_triggers ever emitted, in firing order
    threads,         \* two callers inside check on the one trigger trig
    now              \* datetime.utcnow(), in seconds

vars == <<engine, expr, context, evalOut, epc, config, created, trig, twin, trace,
          triggers, trigger_history, ret, fired_log, threads, now>>

evalVars == <<expr, context, evalOut, epc>>
trigVars == <<config, created, trig, twin, trace>>
mgrVars  == <<triggers, trigger_history, ret, fired_log>>

-----------------------------------------------------------------------------
(* Python values *)

None      == <<"none">>
Num(n)    == <<"num", n>>
Bool(b)   == <<"bool", b>>
Str(s)    == <<"str", s>>
List(s)   == <<"list", s>>
Tuple(s)  == <<"tuple", s>>
Dict(s)   == <<"dict", s>>

Tag(v)    == v[1]
IsNone(v) == Tag(v) = "none"
\* bool is a subclass of int in Python
IsNumeric(v) == Tag(v) \in {"num", "bool"}
AsInt(v)  == IF Tag(v) = "bool" THEN (IF v[2] THEN 1 ELSE 0) ELSE v[2]

\* bool(v)
Truthy(v) ==
    CASE Tag(v) = "num"  -> v[2] # 0
      [] Tag(v) = "bool" -> v[2]
      [] Tag(v) = "none" -> FALSE
      [] Tag(v) = "str"  -> v[2] # ""
      [] Tag(v) \in {"float", "datetime"} -> TRUE
      [] OTHER           -> Len(v[2]) > 0

\* a == b
PyEq(a, b) ==
    IF IsNumeric(a) /\ IsNumeric(b) THEN AsInt(a) = AsInt(b)
    ELSE Tag(a) = Tag(b) /\ a = b

\* a < b, a <= b, ... are defined on two numbers (and on two strings or two
\* sequences, which the model's inputs never compare); anything else is a
\* TypeError.
Orderable(a, b) == IsNumeric(a) /\ IsNumeric(b)

\* mapping.get(key, default) on a snapshot / context / params record
Has(m, key) == key \in DOMAIN m
Get(m, key, default) == IF Has(m, key) THEN m[key] ELSE default
EmptyMap == [k \in {} |-> None]

RECURSIVE SumSeq(_)
SumSeq(s) == IF Len(s) = 0 THEN 0 ELSE AsInt(Head(s)) + SumSeq(Tail(s))

AllNumeric(s) == \A i \in 1..Len(s) : IsNumeric(s[i])

-----------------------------------------------------------------------------
(* DSLEngine: the operator, function and keyword tables *)

\* _init_operators: the ast operator classes the table maps
init_operators ==
    [bin   |-> {"Add", "Sub", "Mult", "Div", "FloorDiv", "Mod", "Pow",
                "BitAnd", "BitOr", "BitXor"},
     unary |-> {"USub", "UAdd", "Invert"}]

\* _init_functions: the registered names
init_functions ==
    {"abs", "round", "floor", "ceil", "sqrt", "log", "log10", "exp", "pow",
     "min", "max", "sum", "mean", "median", "std", "var",
     "now", "timestamp", "days_ago",
     "sma", "ema", "rsi", "macd", "bollinger", "atr",
     "lower", "upper", "contains", "starts_with",
     "len", "first", "last", "slice",
     "returns", "volatility", "sharpe", "max_drawdown"}

\* _init_keywords; pi and e are floats, kept as opaque values
init_keywords ==
    [true |-> Bool(TRUE), false |-> Bool(FALSE), null |-> None,
     pi |-> <<"float", "pi">>, e |-> <<"float", "e">>]

\* DSLEngine.__init__: the fields of a new engine.  Every CustomDSLTrigger
\* makes an engine of its own; all engines have these same tables.
DSLEngine ==
    [operators |-> init_operators, functions |-> init_functions,
     keywords |-> init_keywords]

\* self.operators, self.functions, self.keywords as evaluate reads them
BinOperators   == engine.operators.bin
UnaryOperators == engine.operators.unary
FunctionNames  == engine.functions
KeywordNames   == DOMAIN engine.keywords
Keyword(id)    == engine.keywords[id]

\* the comparison classes the Compare branch dispatches on
CompareOperators == {"Eq", "NotEq", "Lt", "LtE", "Gt", "GtE", "In", "NotIn"}

\* the outcome of a Python operation: a value, or an exception
Val(v)  == [ok |-> TRUE, val |-> v]
Raise   == [ok |-> FALSE, val |-> None]

\* Python's // and % (floor semantics, the sign of the divisor)
PyFloorDiv(a, b) == IF b > 0 THEN a \div b ELSE (0 - a) \div (0 - b)
PyMod(a, b)      == a - b * PyFloorDiv(a, b)

\* self.operators[op_type](left, right) on the values the model draws:
\* numbers/booleans, None and lists.  Other operand types are not drawn.
ApplyBinOp(op, a, b) ==
    CASE IsNone(a) \/ IsNone(b) -> Raise
      [] IsNumeric(a) /\ IsNumeric(b) /\ op = "Add"  -> Val(Num(AsInt(a) + AsInt(b)))
      [] IsNumeric(a) /\ IsNumeric(b) /\ op = "Sub"  -> Val(Num(AsInt(a) - AsInt(b)))
      [] IsNumeric(a) /\ IsNumeric(b) /\ op = "Mult" -> Val(Num(AsInt(a) * AsInt(b)))
      [] IsNumeric(a) /\ IsNumeric(b) /\ op \in {"FloorDiv", "Mod", "Div"} /\ AsInt(b) = 0
            -> Raise
      [] IsNumeric(a) /\ IsNumeric(b) /\ op = "FloorDiv" /\ AsInt(b) # 0
            -> Val(Num(PyFloorDiv(AsInt(a), AsInt(b))))
      [] IsNumeric(a) /\ IsNumeric(b) /\ op = "Mod" /\ AsInt(b) # 0
            -> Val(Num(PyMod(AsInt(a), AsInt(b))))
      [] Tag(a) = "list" /\ Tag(b) = "list" /\ op = "Add" -> Val(List(a[2] \o b[2]))
      [] Tag(a) = "list" /\ Tag(b) = "list" /\ op # "Add" -> Raise
      [] Tag(a) = "list" /\ IsNumeric(b) /\ op \in {"Add", "Sub"} -> Raise
      [] IsNumeric(a) /\ Tag(b) = "list" /\ op \in {"Add", "Sub"} -> Raise

\* self.operators[op_type](operand)
ApplyUnaryOp(op, a) ==
    CASE IsNumeric(a) /\ op = "USub"   -> Val(Num(0 - AsInt(a)))
      [] IsNumeric(a) /\ op = "UAdd"   -> Val(Num(AsInt(a)))
      [] IsNumeric(a) /\ op = "Invert" -> Val(Num(0 - AsInt(a) - 1))
      [] Tag(a) \in {"none", "list"}   -> Raise

Contains(s, v) == \E i \in 1..Len(s) : PyEq(s[i], v)

\* one pairwise comparison of the Compare branch
ApplyCompare(op, a, b) ==
    CASE op = "Eq"    -> Val(Bool(PyEq(a, b)))
      [] op = "NotEq" -> Val(Bool(~PyEq(a, b)))
      [] op \in {"Lt", "LtE", "Gt", "GtE"} /\ (IsNone(a) \/ IsNone(b)) -> Raise
      [] op \in {"Lt", "LtE", "Gt", "GtE"} /\ IsNumeric(a) /\ Tag(b) = "list" -> Raise
      [] op \in {"Lt", "LtE", "Gt", "GtE"} /\ Tag(a) = "list" /\ IsNumeric(b) -> Raise
      [] op = "Lt"  /\ Orderable(a, b) -> Val(Bool(AsInt(a) < AsInt(b)))
      [] op = "LtE" /\ Orderable(a, b) -> Val(Bool(AsInt(a) <= AsInt(b)))
      [] op = "Gt"  /\ Orderable(a, b) -> Val(Bool(AsInt(a) > AsInt(b)))
      [] op = "GtE" /\ Orderable(a, b) -> Val(Bool(AsInt(a) >= AsInt(b)))
      [] op \in {"In", "NotIn"} /\ (IsNumeric(b) \/ IsNone(b)) -> Raise
      [] op = "In"    /\ Tag(b) \in {"list", "tuple"} -> Val(Bool(Contains(b[2], a)))
      [] op = "NotIn" /\ Tag(b) \in {"list", "tuple"} -> Val(Bool(~Contains(b[2], a)))

\* a call that hands back the registered callable instead of applying it
CallFunctionUnapplied(name, args) == Val(<<"callable", name>>)

\* func(*args) for the registered functions the model's expressions call;
\* now() returns a datetime, kept as an opaque value
CallFunction(name, args) ==
    CASE name = "now" -> IF Len(args) = 0 THEN Val(<<"datetime", "utcnow">>) ELSE Raise
      [] name = "abs" ->
            IF Len(args) = 1 /\ IsNumeric(args[1])
            THEN Val(Num(IF AsInt(args[1]) < 0 THEN 0 - AsInt(args[1]) ELSE AsInt(args[1])))
            ELSE Raise
      [] name = "len" ->
            IF Len(args) = 1 /\ Tag(args[1]) \in {"list", "tuple", "dict"}
            THEN Val(Num(Len(args[1][2])))
            ELSE Raise
      [] name = "sum" /\ Len(args) # 2 ->
            IF Len(args) = 1 /\ Tag(args[1]) \in {"list", "tuple"} /\ AllNumeric(args[1][2])
            THEN Val(Num(SumSeq(args[1][2])))
            ELSE Raise
      [] name = "first" ->
            IF Len(args) # 1 THEN Raise
            ELSE IF ~Truthy(args[1]) THEN Val(None)
            ELSE IF Tag(args[1]) \in {"list", "tuple"} THEN Val(args[1][2][1])
            ELSE Raise
      [] name = "last" ->
            IF Len(args) # 1 THEN Raise
            ELSE IF ~Truthy(args[1]) THEN Val(None)
            ELSE IF Tag(args[1]) \in {"list", "tuple"} THEN Val(args[1][2][Len(args[1][2])])
            ELSE Raise

\* value[slice_value]
GetItem(v, i) ==
    CASE Tag(v) \in {"list", "tuple"} /\ Tag(i) \in {"num", "bool"} ->
            LET n == Len(v[2])
                k == AsInt(i)
            IN  IF k >= 0 /\ k < n THEN Val(v[2][k + 1])
                ELSE IF k < 0 /\ k >= 0 - n THEN Val(v[2][n + k + 1])
                ELSE Raise
      [] Tag(v) \in {"list", "tuple"} /\ Tag(i) \in {"none", "list"} -> Raise
      [] Tag(v) \in {"num", "bool", "none"} -> Raise

-----------------------------------------------------------------------------
(* DSLEngine: the technical indicator calculations *)

\* the float n / d that a true division returns
Float(n, d) == <<"float", n, d>>

\* a / b on two ints: ZeroDivisionError when b is 0
TrueDiv(a, b) == IF b = 0 THEN Raise ELSE Val(Float(a, b))

\* prices[-period:]: the last `period` values (all of a shorter list) for a
\* positive period, the values from index -period on otherwise
Slice(prices, period) ==
    IF period > 0
    THEN (IF Len(prices) <= period THEN prices
          ELSE SubSeq(prices, Len(prices) - period + 1, Len(prices)))
    ELSE SubSeq(prices, 1 - period, Len(prices))

\* DSLEngine._calculate_sma averaging the first `period` values
calculate_smaOldest(prices, period) ==
    IF Len(prices) < period
    THEN (IF prices # <<>> THEN Val(prices[Len(prices)]) ELSE Val(Num(0)))
    ELSE TrueDiv(SumSeq(SubSeq(prices, 1, period)), period)

\* DSLEngine._calculate_sma
calculate_sma(prices, period) ==
    IF Len(prices) < period
    THEN (IF prices # <<>> THEN Val(prices[Len(prices)]) ELSE Val(Num(0)))
    ELSE TrueDiv(SumSeq(Slice(prices, period)), period)

AbsInt(x) == IF x < 0 THEN 0 - x ELSE x
Max3(a, b, c) ==
    IF a >= b /\ a >= c THEN a ELSE IF b >= c THEN b ELSE c

\* tr of one pass of the loop, i counted from 0 as in the code
TrueRange(highs, lows, closes, i) ==
    LET hl == AsInt(highs[i + 1]) - AsInt(lows[i + 1])
        hc == AbsInt(AsInt(highs[i + 1]) - AsInt(closes[i]))
        lc == AbsInt(AsInt(lows[i + 1]) - AsInt(closes[i]))
    IN  Num(Max3(hl, hc, lc))

\* DSLEngine._calculate_atr: the loop runs i = 1 .. len(highs) - 1 and reads
\* lows[i] and closes[i - 1], an IndexError where a series is too short
calculate_atr(highs, lows, closes, period) ==
    IF Len(highs) < period \/ Len(lows) < period \/ Len(closes) < period
    THEN Val(Num(0))
    ELSE IF Len(highs) >= 2 /\ (Len(lows) < Len(highs) \/ Len(closes) < Len(highs) - 1)
    THEN Raise
    ELSE LET tr_values == [i \in 1..(IF Len(highs) = 0 THEN 0 ELSE Len(highs) - 1) |->
                              TrueRange(highs, lows, closes, i)]
         IN  TrueDiv(SumSeq(Slice(tr_values, period)), period)

-----------------------------------------------------------------------------
(* DSLEngine.evaluate *)

\* what a call of evaluate did: ok/val, the nodes evaluate was entered on (in
\* order), and the functions invoked, each with the Call node that invoked it
Ok(v, vis, cl) == [ok |-> TRUE,  val |-> v,    visited |-> vis, calls |-> cl]
Err(vis, cl)   == [ok |-> FALSE, val |-> None, visited |-> vis, calls |-> cl]

\* an identifier looked up with None as the default of context.get
LookupDefaultNone(id, ctx) ==
    IF id \in KeywordNames THEN Keyword(id) ELSE Get(ctx, id, None)

\* an identifier looked up in the context before the keywords
LookupContextFirst(id, ctx) ==
    IF Has(ctx, id) THEN ctx[id]
    ELSE IF id \in KeywordNames THEN Keyword(id) ELSE Num(0)

\* the Name branch: keywords first, then context.get(node.id, 0)
Lookup(id, ctx) ==
    IF id \in KeywordNames THEN Keyword(id) ELSE Get(ctx, id, Num(0))

\* func_name = node.func.id: an AttributeError unless the callee is a Name
CalleeNameLoose(func) ==
    IF func[1] = "Name" THEN [ok |-> TRUE, name |-> func[2]]
    ELSE IF func[1] = "Attribute" THEN [ok |-> TRUE, name |-> func[3]]
    ELSE [ok |-> FALSE, name |-> ""]

CalleeName(func) ==
    IF func[1] = "Name" THEN [ok |-> TRUE, name |-> func[2]]
    ELSE [ok |-> FALSE, name |-> ""]

RECURSIVE evaluate(_, _), EvaluateAll(_, _), EvaluateBool(_, _, _),
          CompareLoop(_, _, _, _, _)

\* [self.evaluate(element, context) for element in ...]: left to right, the
\* first exception ends it
EvaluateAll(nodes, ctx) ==
    IF nodes = <<>> THEN [ok |-> TRUE, vals |-> <<>>, visited |-> <<>>, calls |-> <<>>]
    ELSE LET h == evaluate(Head(nodes), ctx) IN
         IF ~h.ok
         THEN [ok |-> FALSE, vals |-> <<>>, visited |-> h.visited, calls |-> h.calls]
         ELSE LET r == EvaluateAll(Tail(nodes), ctx) IN
              [ok |-> r.ok, vals |-> <<h.val>> \o r.vals,
               visited |-> h.visited \o r.visited, calls |-> h.calls \o r.calls]

\* all([...]) / any([...]) over a list: every operand is evaluated first
EvaluateBoolEager(op, nodes, ctx) ==
    LET r == EvaluateAll(nodes, ctx) IN
    IF ~r.ok THEN Err(r.visited, r.calls)
    ELSE Ok(Bool(IF op = "And" THEN \A i \in 1..Len(r.vals) : Truthy(r.vals[i])
                 ELSE \E i \in 1..Len(r.vals) : Truthy(r.vals[i])),
            r.visited, r.calls)

\* all(...) / any(...) over a generator: stops at the first falsy / truthy value
EvaluateBool(op, nodes, ctx) ==
    IF nodes = <<>> THEN Ok(Bool(op = "And"), <<>>, <<>>)
    ELSE LET h == evaluate(Head(nodes), ctx) IN
         IF ~h.ok THEN Err(h.visited, h.calls)
         ELSE IF op = "And" /\ ~Truthy(h.val) THEN Ok(Bool(FALSE), h.visited, h.calls)
         ELSE IF op # "And" /\ Truthy(h.val) THEN Ok(Bool(TRUE), h.visited, h.calls)
         ELSE LET r == EvaluateBool(op, Tail(nodes), ctx) IN
              [r EXCEPT !.visited = h.visited \o r.visited, !.calls = h.calls \o r.calls]

\* the loop of the Compare branch: every comparator is evaluated; the pairwise
\* comparison is made only while result is still true; an unsupported
\* comparison class raises
CompareLoop(left, ops, comps, ctx, result) ==
    IF ops = <<>> THEN Ok(Bool(result), <<>>, <<>>)
    ELSE LET r == evaluate(Head(comps), ctx) IN
         IF ~r.ok THEN Err(r.visited, r.calls)
         ELSE IF Head(ops) \notin CompareOperators THEN Err(r.visited, r.calls)
         ELSE LET c == IF result THEN ApplyCompare(Head(ops), left, r.val)
                       ELSE Val(Bool(FALSE))
              IN  IF ~c.ok THEN Err(r.visited, r.calls)
                  ELSE LET rest == CompareLoop(r.val, Tail(ops), Tail(comps), ctx,
                                               c.val[2])
                       IN  [rest EXCEPT !.visited = r.visited \o rest.visited,
                                        !.calls = r.calls \o rest.calls]

evaluate(node, ctx) ==
    LET kind == node[1]
        self == <<node>>
    IN
    CASE kind = "Constant" -> Ok(node[2], self, <<>>)
      [] kind = "Name" -> Ok(Lookup(node[2], ctx), self, <<>>)
      [] kind \in {"List", "Tuple"} ->
            LET r == EvaluateAll(node[2], ctx) IN
            IF r.ok THEN Ok(<<(IF kind = "List" THEN "list" ELSE "tuple"), r.vals>>,
                            self \o r.visited, r.calls)
            ELSE Err(self \o r.visited, r.calls)
      [] kind = "Dict" ->
            \* keys and values are evaluated pairwise, key first; a list key
            \* is unhashable
            LET pairs == [i \in 1..(2 * Len(node[2])) |->
                            IF i % 2 = 1 THEN node[2][(i + 1) \div 2]
                            ELSE node[3][i \div 2]]
                r == EvaluateAll(pairs, ctx)
            IN  IF r.ok /\ \A i \in 1..Len(node[2]) :
                              Tag(r.vals[2 * i - 1]) \notin {"list", "dict"}
                THEN Ok(Dict([i \in 1..Len(node[2]) |->
                                <<r.vals[2 * i - 1], r.vals[2 * i]>>]),
                        self \o r.visited, r.calls)
                ELSE Err(self \o r.visited, r.calls)
      [] kind = "BinOp" ->
            LET r == EvaluateAll(<<node[3], node[4]>>, ctx) IN
            IF ~r.ok \/ node[2] \notin BinOperators THEN Err(self \o r.visited, r.calls)
            ELSE LET v == ApplyBinOp(node[2], r.vals[1], r.vals[2]) IN
                 IF v.ok THEN Ok(v.val, self \o r.visited, r.calls)
                 ELSE Err(self \o r.visited, r.calls)
      [] kind = "UnaryOp" ->
            LET r == evaluate(node[3], ctx) IN
            IF ~r.ok \/ node[2] \notin UnaryOperators THEN Err(self \o r.visited, r.calls)
            ELSE LET v == ApplyUnaryOp(node[2], r.val) IN
                 IF v.ok THEN Ok(v.val, self \o r.visited, r.calls)
                 ELSE Err(self \o r.visited, r.calls)
      [] kind = "Compare" ->
            LET l == evaluate(node[2], ctx) IN
            IF ~l.ok THEN Err(self \o l.visited, l.calls)
            ELSE LET r == CompareLoop(l.val, node[3], node[4], ctx, TRUE) IN
                 [r EXCEPT !.visited = self \o l.visited \o r.visited,
                           !.calls = l.calls \o r.calls]
      [] kind = "BoolOp" ->
            LET r == EvaluateBool(node[2], node[3], ctx) IN
            [r EXCEPT !.visited = self \o r.visited]
      [] kind = "Call" ->
            LET callee == CalleeName(node[2]) IN
            IF ~callee.ok \/ callee.name \notin FunctionNames THEN Err(self, <<>>)
            ELSE LET a == EvaluateAll(node[3], ctx) IN
                 IF ~a.ok THEN Err(self \o a.visited, a.calls)
                 ELSE LET v    == CallFunction(callee.name, a.vals)
                          made == a.calls \o << <<callee.name, node>> >>
                      IN  IF v.ok THEN Ok(v.val, self \o a.visited, made)
                          ELSE Err(self \o a.visited, made)
      [] kind = "IfExp" ->
            LET t == evaluate(node[2], ctx) IN
            IF ~t.ok THEN Err(self \o t.visited, t.calls)
            ELSE LET b == evaluate(IF Truthy(t.val) THEN node[3] ELSE node[4], ctx) IN
                 [b EXCEPT !.visited = self \o t.visited \o b.visited,
                           !.calls = t.calls \o b.calls]
      [] kind = "Subscript" ->
            LET r == EvaluateAll(<<node[2], node[3]>>, ctx) IN
            IF ~r.ok THEN Err(self \o r.visited, r.calls)
            ELSE LET v == GetItem(r.vals[1], r.vals[2]) IN
                 IF v.ok THEN Ok(v.val, self \o r.visited, r.calls)
                 ELSE Err(self \o r.visited, r.calls)
      [] OTHER -> Err(self, <<>>)    \* "Unsupported AST node type"

-----------------------------------------------------------------------------
(* The expressions and contexts evaluate is run on *)

MaxLit == 3          \* integer literals 1..MaxLit

Lit(n)       == <<"Constant", Num(n)>>
NameNode(id) == <<"Name", id>>

\* operands whose evaluation fails
AttributeNode      == <<"Attribute", NameNode("os"), "environ">>   \* os.environ
LambdaNode         == <<"Lambda", Lit(1)>>                         \* lambda: 1
UnknownCall        == <<"Call", NameNode("foo"), <<>> >>           \* foo()
MethodCall         == <<"Call", <<"Attribute", NameNode("os"), "abs">>,
                        <<Lit(1)>> >>                              \* os.abs(1)
\* operands whose evaluation succeeds
AbsCall            == <<"Call", NameNode("abs"), <<Lit(1)>> >>     \* abs(1)
NowCall            == <<"Call", NameNode("now"), <<>> >>           \* now()

FailingOperands == {AttributeNode, LambdaNode, UnknownCall, MethodCall}
Operands ==
    {Lit(n) : n \in 1..MaxLit}
        \cup {NameNode("price"), NameNode("unbound"), NameNode("true"), NameNode("null"),
              AbsCall}
        \cup FailingOperands

ChainOps == {"Lt", "Gt"}

CompareExprs ==
    {<<"Compare", a, <<o1, o2>>, <<b, c>> >> :
        a \in Operands, b \in Operands, c \in Operands, o1 \in ChainOps, o2 \in ChainOps}
BinOpExprs  == {<<"BinOp", "Add", a, b>> : a \in Operands, b \in Operands}
BoolOpExprs == {<<"BoolOp", o, <<a, b>> >> : o \in {"And", "Or"}, a \in Operands, b \in Operands}
IfExprs     == {<<"IfExp", <<"Compare", NameNode("price"), <<"Gt">>, <<Lit(2)>> >>, a, b>> :
                    a \in Operands, b \in Operands}
SubscriptExprs == {<<"Subscript", <<"List", <<a, Lit(2)>> >>, <<"Constant", Num(0)>> >> :
                    a \in Operands}

TimeExprs == {NowCall, <<"List", <<NowCall, Lit(1)>> >>}

Exprs == Operands \cup CompareExprs \cup BinOpExprs \cup BoolOpExprs \cup IfExprs
            \cup SubscriptExprs \cup TimeExprs

\* the last two bind keyword names
Contexts ==
    { [price |-> Num(2)],
      [price |-> Num(3), volume |-> Num(7)],
      [price |-> Num(2), true |-> Bool(FALSE), null |-> Num(5), pi |-> Num(3)],
      [price |-> Num(2), true |-> Num(7), null |-> List(<<Num(1)>>)] }

NoEval == Err(<<>>, <<>>)

-----------------------------------------------------------------------------
(* DSLEngine.parse_dsl *)

\* ast.parse(text, mode='eval') on the expression texts the model uses
DslTexts == {"price > 10", "price >", "foo(price)", "price.real > 10", "sma_20 > 10",
             "abs(price) > foo(true)"}
Parse(text) ==
    CASE text = "price > 10" ->
            [ok |-> TRUE, tree |-> <<"Compare", NameNode("price"), <<"Gt">>, <<Lit(10)>> >>]
      [] text = "sma_20 > 10" ->
            [ok |-> TRUE, tree |-> <<"Compare", NameNode("sma_20"), <<"Gt">>, <<Lit(10)>> >>]
      [] text = "foo(price)" ->
            [ok |-> TRUE, tree |-> <<"Call", NameNode("foo"), <<NameNode("price")>> >>]
      [] text = "abs(price) > foo(true)" ->
            [ok |-> TRUE,
             tree |-> <<"Compare", <<"Call", NameNode("abs"), <<NameNode("price")>> >>,
                        <<"Gt">>, << <<"Call", NameNode("foo"), <<NameNode("true")>> >> >> >>]
      [] text = "price.real > 10" ->
            [ok |-> TRUE, tree |-> <<"Compare", <<"Attribute", NameNode("price"), "real">>,
                                     <<"Gt">>, <<Lit(10)>> >>]
      [] text = "len(volume_history) > 1" ->
            [ok |-> TRUE,
             tree |-> <<"Compare", <<"Call", NameNode("len"), <<NameNode("volume_history")>> >>,
                        <<"Gt">>, <<Lit(1)>> >>]
      [] text = "price" -> [ok |-> TRUE, tree |-> NameNode("price")]
      [] OTHER -> [ok |-> FALSE, tree |-> <<"Constant", None>>]   \* SyntaxError / TypeError

\* dict.update: the mapping m with the entries of extra written into it
DictUpdate(m, extra) ==
    [k \in DOMAIN m \cup DOMAIN extra |-> IF k \in DOMAIN extra THEN extra[k] ELSE m[k]]

\* The dict objects parse_dsl works with, by name: the caller's market_data
\* and, once created, the local context.
Heap(md) == [market_data |-> md, context |-> EmptyMap]

\* context = market_data: the same object under another name
SpreadCopyAliased(h, src) == [heap |-> h, ref |-> src]

\* context = {**market_data}: a new dict with the entries of market_data
SpreadCopy(h, src) == [heap |-> [h EXCEPT !.context = h[src]], ref |-> "context"]

\* the indicators parse_dsl computes from a series shorter than every
\* period: _calculate_sma and _calculate_ema give the last price,
\* _calculate_rsi 50, _calculate_bollinger_bands the last price three times
Indicators(prices) ==
    CASE Tag(prices) = "list" /\ Len(prices[2]) > 0 /\ Len(prices[2]) < 12 ->
        LET last == prices[2][Len(prices[2])] IN
        [sma_20 |-> last, ema_12 |-> last, rsi_14 |-> Num(50),
         bb |-> Dict(<< <<Str("upper"), last>>, <<Str("middle"), last>>,
                        <<Str("lower"), last>> >>)]

\* parse_dsl up to ast.parse: the context is made and the indicators are
\* written into it.  len(prices) raises on a value without a length.
\* c is the heap with the new context and the name of that context
AddIndicators(c, md) ==
    IF ~Has(md, "prices") THEN [ok |-> TRUE, heap |-> c.heap, ref |-> c.ref]
    ELSE IF Tag(md.prices) \notin {"list", "tuple", "str", "dict"}
         THEN [ok |-> FALSE, heap |-> c.heap, ref |-> c.ref]
    ELSE IF Len(md.prices[2]) = 0 THEN [ok |-> TRUE, heap |-> c.heap, ref |-> c.ref]
    ELSE [ok |-> TRUE, ref |-> c.ref,
          heap |-> [c.heap EXCEPT ![c.ref] = DictUpdate(@, Indicators(md.prices))]]

PrepareContext(md) == AddIndicators(SpreadCopy(Heap(md), "market_data"), md)

\* parse_dsl from ast.parse on: pc is what PrepareContext left, p the tree
EvaluateParsed(pc, p) ==
    IF ~pc.ok \/ ~p.ok THEN Raise
    ELSE LET r == evaluate(p.tree, pc.heap[pc.ref]) IN
         IF r.ok THEN Val(Bool(Truthy(r.val))) ELSE Raise

\* parse_dsl(text, market_data): bool(evaluate(tree, context)), every failure
\* re-raised as ValueError
parse_dsl(text, md) == EvaluateParsed(PrepareContext(md), Parse(text))

\* the caller's market_data when parse_dsl has returned or raised
parse_dsl_market_data(md) == PrepareContext(md).heap.market_data

-----------------------------------------------------------------------------
(* DSLEngine.validate_dsl *)

\* ast.iter_child_nodes on the node kinds of the trees Parse gives
iter_child_nodes(node) ==
    CASE node[1] \in {"Constant", "Name"} -> <<>>
      [] node[1] = "Compare"              -> <<node[2]>> \o node[4]
      [] node[1] = "Call"                 -> <<node[2]>> \o node[3]
      [] node[1] = "Attribute"            -> <<node[2]>>

Range(seq) == {seq[i] : i \in 1..Len(seq)}

\* ast.walk(tree): the node and all its descendants
RECURSIVE ast_walk(_), WalkAll(_)
WalkAll(nodes) ==
    IF nodes = <<>> THEN <<>> ELSE ast_walk(Head(nodes)) \o WalkAll(Tail(nodes))
ast_walk(node) == <<node>> \o WalkAll(iter_child_nodes(node))

\* the record validate_dsl returns; the three lists are built from sets and
\* are kept as sets; error is "none" for None
Validation(valid, variables, functions, unknown, error) ==
    [valid |-> valid, variables |-> variables, functions |-> functions,
     unknown_functions |-> unknown, error |-> error]

\* validate_dsl with every called name reported as unknown
validate_dslAllUnknown(text) ==
    IF ~Parse(text).ok THEN Validation(FALSE, {}, {}, {}, "Syntax error")
    ELSE Validation(TRUE,
            {n[2] : n \in {m \in Range(ast_walk(Parse(text).tree)) :
                              m[1] = "Name" /\ m[2] \notin KeywordNames}},
            {n[2][2] : n \in {m \in Range(ast_walk(Parse(text).tree)) :
                                 m[1] = "Call" /\ m[2][1] = "Name"}},
            {n[2][2] : n \in {m \in Range(ast_walk(Parse(text).tree)) :
                                 m[1] = "Call" /\ m[2][1] = "Name"}},
            "none")

\* validate_dsl(text): the tree is walked, never evaluated.  The names of
\* called functions are Name nodes too and are among the variables.
validate_dsl(text) ==
    IF ~Parse(text).ok THEN Validation(FALSE, {}, {}, {}, "Syntax error")
    ELSE Validation(TRUE,
            {n[2] : n \in {m \in Range(ast_walk(Parse(text).tree)) :
                              m[1] = "Name" /\ m[2] \notin KeywordNames}},
            {n[2][2] : n \in {m \in Range(ast_walk(Parse(text).tree)) :
                                 m[1] = "Call" /\ m[2][1] = "Name"}},
            {n[2][2] : n \in {m \in Range(ast_walk(Parse(text).tree)) :
                                 m[1] = "Call" /\ m[2][1] = "Name"
                                 /\ m[2][2] \notin FunctionNames}},
            "none")

-----------------------------------------------------------------------------
(* DSLEngine: the fields of the engine when a method has returned or raised *)

\* evaluate with a Name branch that stores the value it found in the context
\* in self.keywords
evaluate_selfCaching(eng, node, ctx) ==
    IF node[1] = "Name" /\ Has(ctx, node[2])
    THEN [eng EXCEPT !.keywords = DictUpdate(@, [k \in {node[2]} |-> ctx[node[2]]])]
    ELSE eng

\* evaluate: no branch assigns to an attribute of self, and the tables are
\* only read (in, [], get)
evaluate_self(eng, node, ctx) == eng

\* parse_dsl: the engine is touched by its call of evaluate only
parse_dsl_self(eng, text, md) ==
    IF PrepareContext(md).ok /\ Parse(text).ok
    THEN evaluate_self(eng, Parse(text).tree, PrepareContext(md).heap[PrepareContext(md).ref])
    ELSE eng

-----------------------------------------------------------------------------
(* alerts/triggers/_init_.py: the trigger classes *)

\* class TriggerType(Enum): every value
TriggerTypeValues ==
    {"price_above", "price_below", "price_cross_above", "price_cross_below",
     "price_breakout", "price_breakdown",
     "volume_spike", "volume_above_average", "volume_surge",
     "rsi_overbought", "rsi_oversold", "macd_crossover", "macd_signal_cross",
     "bollinger_breakout", "bollinger_squeeze", "ema_crossover", "sma_crossover",
     "support_touch", "resistance_touch", "support_break", "resistance_break",
     "double_top", "double_bottom", "head_shoulders", "triangle_breakout",
     "market_cap_threshold", "liquidity_change", "volatility_spike",
     "fear_greed_extreme", "social_sentiment", "news_keyword",
     "whale_movement", "exchange_flow", "active_addresses",
     "funding_rate_extreme", "open_interest_change", "liquidations_spike",
     "orderbook_imbalance", "bid_ask_spread", "large_order",
     "scheduled_time", "time_window",
     "custom_dsl", "composite_trigger"}

\* BaseTrigger.__init__ plus the attributes the subclasses add.  An attribute
\* a class does not have keeps the value given here and is never read.
BaseTrigger(cls, trigger_type, params) ==
    [cls |-> cls, trigger_type |-> trigger_type, params |-> params,
     last_triggered |-> None, trigger_count |-> 0,
     confirmation_count |-> 0, prev_macd |-> None, prev_signal |-> None,
     sub_triggers |-> <<>>]

NoTrigger == BaseTrigger("none", "none", EmptyMap)

\* a caller of check: where it is in the method, the snapshot it was given,
\* its local variables and what it returned
Idle == [pc |-> "idle", md |-> EmptyMap, current_macd |-> Num(0),
         current_signal |-> Num(0), triggered |-> FALSE, tmp |-> 0, out |-> "none"]
\* callers: the two callers; base: the trigger when the first of them entered;
\* order: the callers in the order they entered; overlap: one entered while
\* the other was inside check
NoThreads == [callers |-> <<Idle, Idle>>, base |-> NoTrigger, order |-> <<>>,
              overlap |-> FALSE]
NoConfig  == [type |-> "none"]

\* BaseTrigger.to_dict
to_dict(t) ==
    [type |-> t.trigger_type, params |-> t.params,
     last_triggered |-> t.last_triggered, trigger_count |-> t.trigger_count]

\* BaseTrigger.reset clearing the counter as well
resetCount(t) == [t EXCEPT !.last_triggered = None, !.trigger_count = 0]

\* BaseTrigger.reset
reset(t) == [t EXCEPT !.last_triggered = None]

PriceAboveTrigger(threshold) ==
    BaseTrigger("PriceAboveTrigger", "price_above", [threshold |-> threshold])

VolumeSpikeTrigger(multiplier, lookback_period) ==
    BaseTrigger("VolumeSpikeTrigger", "volume_spike",
                [multiplier |-> multiplier, lookback_period |-> lookback_period])

RSITrigger(rsi_threshold, condition) ==
    BaseTrigger("RSITrigger",
                IF condition = "below" THEN "rsi_oversold" ELSE "rsi_overbought",
                [threshold |-> rsi_threshold, condition |-> condition])

BollingerBreakoutTrigger(direction, confirmation_period) ==
    BaseTrigger("BollingerBreakoutTrigger", "bollinger_breakout",
                [direction |-> direction, confirmation_period |-> confirmation_period])

MACDCrossTrigger(crossover_type) ==
    BaseTrigger("MACDCrossTrigger", "macd_crossover", [crossover_type |-> crossover_type])

TimeBasedTrigger(time_condition, value) ==
    BaseTrigger("TimeBasedTrigger", "scheduled_time",
                [condition |-> time_condition, value |-> value])

CompositeTrigger(subs, operator) ==
    [BaseTrigger("CompositeTrigger", "composite_trigger",
                 [triggers |-> [i \in 1..Len(subs) |-> to_dict(subs[i])],
                  operator |-> operator])
     EXCEPT !.sub_triggers = subs]

CustomDSLTrigger(dsl_expression) ==
    BaseTrigger("CustomDSLTrigger", "custom_dsl", [dsl_expression |-> dsl_expression])

\* what one call of check did: the trigger afterwards, "true" / "false" /
\* "raise", and (for a composite) the outcome of every child check it made
Res(t, out, kids) == [t |-> t, out |-> out, kids |-> kids]

\* self.last_triggered = datetime.utcnow(); self.trigger_count += 1
Fire(t, clock) == [t EXCEPT !.last_triggered = Num(clock), !.trigger_count = @ + 1]

\* PriceAboveTrigger.check firing only on the tick the price goes above
PriceAboveTrigger_checkEdge(t, md, clock) ==
    LET current_price == Get(md, "price", Num(0))
        threshold     == t.params.threshold
    IN  IF ~Orderable(current_price, threshold) THEN Res(t, "raise", <<>>)
        ELSE IF AsInt(current_price) > AsInt(threshold) /\ t.last_triggered = None
             THEN Res(Fire(t, clock), "true", <<>>)
        ELSE Res(t, "false", <<>>)

\* PriceAboveTrigger.check
PriceAboveTrigger_check(t, md, clock) ==
    LET current_price == Get(md, "price", Num(0))
        threshold     == t.params.threshold
    IN  IF ~Orderable(current_price, threshold) THEN Res(t, "raise", <<>>)
        ELSE IF AsInt(current_price) > AsInt(threshold) THEN Res(Fire(t, clock), "true", <<>>)
        ELSE Res(t, "false", <<>>)

\* volume_history[-lookback_period:]
LastN(s, n) ==
    IF n > 0 THEN (IF Len(s) <= n THEN s ELSE SubSeq(s, Len(s) - n + 1, Len(s)))
    ELSE SubSeq(s, 1 - n, Len(s))

\* VolumeSpikeTrigger.check firing also when current_volume equals the threshold
VolumeSpikeTrigger_checkAtLeast(t, md, clock) ==
    LET current_volume == Get(md, "volume", Num(0))
        volume_history == Get(md, "volume_history", List(<<>>))[2]
        lookback       == t.params.lookback_period
        multiplier     == t.params.multiplier
    IN  IF ~IsNumeric(lookback) THEN Res(t, "raise", <<>>)
        ELSE IF Len(volume_history) < AsInt(lookback) THEN Res(t, "false", <<>>)
        ELSE LET window == LastN(volume_history, AsInt(lookback)) IN
             IF ~IsNumeric(multiplier) THEN Res(t, "raise", <<>>)
             ELSE IF Len(window) = 0 THEN Res(t, "false", <<>>)     \* mean is nan
             ELSE IF AsInt(current_volume) * Len(window)
                        >= SumSeq(window) * AsInt(multiplier)
                  THEN Res(Fire(t, clock), "true", <<>>)
                  ELSE Res(t, "false", <<>>)

\* VolumeSpikeTrigger.check; current_volume > mean(window) * multiplier is
\* compared as current_volume * len(window) > sum(window) * multiplier
VolumeSpikeTrigger_check(t, md, clock) ==
    LET current_volume == Get(md, "volume", Num(0))
        volume_history == Get(md, "volume_history", List(<<>>))[2]
        lookback       == t.params.lookback_period
        multiplier     == t.params.multiplier
    IN  IF ~IsNumeric(lookback) THEN Res(t, "raise", <<>>)
        ELSE IF Len(volume_history) < AsInt(lookback) THEN Res(t, "false", <<>>)
        ELSE LET window == LastN(volume_history, AsInt(lookback)) IN
             IF ~IsNumeric(multiplier) THEN Res(t, "raise", <<>>)
             ELSE IF Len(window) = 0 THEN Res(t, "false", <<>>)     \* mean is nan
             ELSE IF AsInt(current_volume) * Len(window)
                        > SumSeq(window) * AsInt(multiplier)
                  THEN Res(Fire(t, clock), "true", <<>>)
                  ELSE Res(t, "false", <<>>)

\* RSITrigger.check
RSITrigger_check(t, md, clock) ==
    LET current_rsi == Get(md, "rsi", Num(50))
        threshold   == t.params.threshold
        condition   == t.params.condition
    IN  IF condition \in {"below", "above"} /\ ~Orderable(current_rsi, threshold)
        THEN Res(t, "raise", <<>>)
        ELSE IF \/ condition = "below" /\ AsInt(current_rsi) < AsInt(threshold)
                \/ condition = "above" /\ AsInt(current_rsi) > AsInt(threshold)
             THEN Res(Fire(t, clock), "true", <<>>)
             ELSE Res(t, "false", <<>>)

\* BollingerBreakoutTrigger.check: is the price beyond the configured band
\* edge?  A missing band defaults to price * 1.1 / price * 0.9, compared
\* here in tenths.
BeyondBand(direction, md) ==
    LET price == AsInt(Get(md, "price", Num(0)))
        upper10 == IF Has(md, "bb_upper") THEN 10 * AsInt(md.bb_upper) ELSE 11 * price
        lower10 == IF Has(md, "bb_lower") THEN 10 * AsInt(md.bb_lower) ELSE 9 * price
    IN  \/ direction = "upper" /\ 10 * price > upper10
        \/ direction = "lower" /\ 10 * price < lower10

\* BollingerBreakoutTrigger.check without the reset of confirmation_count
\* on firing
BollingerBreakoutTrigger_checkNoReset(t, md, clock) ==
    LET count  == IF BeyondBand(t.params.direction, md)
                  THEN t.confirmation_count + 1 ELSE 0
        period == t.params.confirmation_period
        t1     == [t EXCEPT !.confirmation_count = count]
    IN  IF ~IsNumeric(period) THEN Res(t1, "raise", <<>>)
        ELSE IF count >= AsInt(period)
             THEN Res([t1 EXCEPT !.last_triggered = Num(clock), !.trigger_count = @ + 1],
                      "true", <<>>)
             ELSE Res(t1, "false", <<>>)

BollingerBreakoutTrigger_check(t, md, clock) ==
    LET count  == IF BeyondBand(t.params.direction, md)
                  THEN t.confirmation_count + 1 ELSE 0
        period == t.params.confirmation_period
        t1     == [t EXCEPT !.confirmation_count = count]
    IN  IF ~IsNumeric(period) THEN Res(t1, "raise", <<>>)
        ELSE IF count >= AsInt(period)
             THEN Res([Fire(t1, clock) EXCEPT !.confirmation_count = 0], "true", <<>>)
             ELSE Res(t1, "false", <<>>)

\* MACDCrossTrigger.check storing the current values only when it does not
\* fire
MACDCrossTrigger_checkKeepsPrev(t, md, clock) ==
    LET current_macd   == Get(md, "macd", Num(0))
        current_signal == Get(md, "macd_signal", Num(0))
        seeded == [t EXCEPT !.prev_macd = current_macd, !.prev_signal = current_signal]
    IN  IF IsNone(t.prev_macd) \/ IsNone(t.prev_signal) THEN Res(seeded, "false", <<>>)
        ELSE LET triggered ==
                    \/ /\ t.params.crossover_type = "bullish"
                       /\ AsInt(t.prev_macd) <= AsInt(t.prev_signal)
                       /\ AsInt(current_macd) > AsInt(current_signal)
                    \/ /\ t.params.crossover_type = "bearish"
                       /\ AsInt(t.prev_macd) >= AsInt(t.prev_signal)
                       /\ AsInt(current_macd) < AsInt(current_signal)
             IN  IF triggered THEN Res(Fire(t, clock), "true", <<>>)
                 ELSE Res(seeded, "false", <<>>)

\* MACDCrossTrigger.check with prev_macd / prev_signal starting at 0 instead
\* of None: the first check compares instead of only seeding
MACDCrossTrigger_checkZeroSeed(t, md, clock) ==
    LET current_macd   == Get(md, "macd", Num(0))
        current_signal == Get(md, "macd_signal", Num(0))
        prev_macd      == IF IsNone(t.prev_macd) THEN 0 ELSE AsInt(t.prev_macd)
        prev_signal    == IF IsNone(t.prev_signal) THEN 0 ELSE AsInt(t.prev_signal)
        seeded == [t EXCEPT !.prev_macd = current_macd, !.prev_signal = current_signal]
        triggered ==
            \/ /\ t.params.crossover_type = "bullish"
               /\ prev_macd <= prev_signal
               /\ AsInt(current_macd) > AsInt(current_signal)
            \/ /\ t.params.crossover_type = "bearish"
               /\ prev_macd >= prev_signal
               /\ AsInt(current_macd) < AsInt(current_signal)
    IN  IF triggered
        THEN Res([seeded EXCEPT !.last_triggered = Num(clock), !.trigger_count = @ + 1],
                 "true", <<>>)
        ELSE Res(seeded, "false", <<>>)

\* MACDCrossTrigger.check
MACDCrossTrigger_check(t, md, clock) ==
    LET current_macd   == Get(md, "macd", Num(0))
        current_signal == Get(md, "macd_signal", Num(0))
        seeded == [t EXCEPT !.prev_macd = current_macd, !.prev_signal = current_signal]
    IN  IF IsNone(t.prev_macd) \/ IsNone(t.prev_signal) THEN Res(seeded, "false", <<>>)
        ELSE LET triggered ==
                    \/ /\ t.params.crossover_type = "bullish"
                       /\ AsInt(t.prev_macd) <= AsInt(t.prev_signal)
                       /\ AsInt(current_macd) > AsInt(current_signal)
                    \/ /\ t.params.crossover_type = "bearish"
                       /\ AsInt(t.prev_macd) >= AsInt(t.prev_signal)
                       /\ AsInt(current_macd) < AsInt(current_signal)
             IN  IF triggered THEN Res(Fire(seeded, clock), "true", <<>>)
                 ELSE Res(seeded, "false", <<>>)

\* datetime.utcnow() of a clock in seconds (day 0 is a Monday)
Hour(clock)    == (clock \div 3600) % 24
Minute(clock)  == (clock \div 60) % 60
Weekday(clock) == (clock \div 86400) % 7
TimeOfDay(h, m) == <<"time", h, m>>
CooldownSeconds == 300

\* TimeBasedTrigger.check without the test on the time since the last firing
TimeBasedTrigger_checkNoCooldown(t, md, clock) ==
    LET condition == t.params.condition
        value     == t.params.value
        current_minutes == Hour(clock) * 60 + Minute(clock)
        triggered ==
            \/ /\ condition = "specific_time"
               /\ Hour(clock) = value[2] /\ Minute(clock) = value[3]
            \/ /\ condition = "time_window"
               /\ value[2][1][2] * 60 + value[2][1][3] <= current_minutes
               /\ current_minutes <= value[2][2][2] * 60 + value[2][2][3]
            \/ /\ condition = "day_of_week"
               /\ IsNumeric(value) /\ Weekday(clock) = AsInt(value)
    IN  IF triggered THEN Res(Fire(t, clock), "true", <<>>)
        ELSE Res(t, "false", <<>>)

\* TimeBasedTrigger.check
TimeBasedTrigger_check(t, md, clock) ==
    LET condition == t.params.condition
        value     == t.params.value
        isTime(v) == Tag(v) = "time"
        current_minutes == Hour(clock) * 60 + Minute(clock)
        bad == \/ condition = "specific_time" /\ ~isTime(value)
               \/ /\ condition = "time_window"
                  /\ \/ Tag(value) \notin {"tuple", "list"}
                     \/ Len(value[2]) # 2
                     \/ ~isTime(value[2][1])
                     \/ ~isTime(value[2][2])
        triggered ==
            \/ /\ condition = "specific_time"
               /\ Hour(clock) = value[2] /\ Minute(clock) = value[3]
            \/ /\ condition = "time_window"
               /\ value[2][1][2] * 60 + value[2][1][3] <= current_minutes
               /\ current_minutes <= value[2][2][2] * 60 + value[2][2][3]
            \/ /\ condition = "day_of_week"
               /\ IsNumeric(value) /\ Weekday(clock) = AsInt(value)
    IN  IF bad THEN Res(t, "raise", <<>>)
        ELSE IF triggered /\ (\/ IsNone(t.last_triggered)
                              \/ clock - t.last_triggered[2] > CooldownSeconds)
             THEN Res(Fire(t, clock), "true", <<>>)
             ELSE Res(t, "false", <<>>)

\* CustomDSLTrigger.check without the except clause
CustomDSLTrigger_checkUncaught(t, md, clock) ==
    LET result == parse_dsl(t.params.dsl_expression, md) IN
    IF ~result.ok THEN Res(t, "raise", <<>>)
    ELSE IF result.val[2] THEN Res(Fire(t, clock), "true", <<>>)
    ELSE Res(t, "false", <<>>)

\* CustomDSLTrigger.check: any exception of parse_dsl is caught, False returned
CustomDSLTrigger_check(t, md, clock) ==
    LET result == parse_dsl(t.params.dsl_expression, md) IN
    IF result.ok /\ result.val[2] THEN Res(Fire(t, clock), "true", <<>>)
    ELSE Res(t, "false", <<>>)

\* an exception raised by a child's check: the list comprehension of
\* CompositeTrigger.check ends there and the exception leaves check
ChildRaised(done) == [done EXCEPT !.raised = TRUE]

RECURSIVE check(_, _, _), CheckChildren(_, _, _, _)

\* results = [trigger.check(market_data) for trigger in self.sub_triggers]
\* done = [subs: the children checked so far, outs: their outcomes, raised]
CheckChildren(subs, md, clock, done) ==
    IF done.raised \/ Len(done.subs) = Len(subs) THEN done
    ELSE LET r  == check(subs[Len(done.subs) + 1], md, clock)
             d1 == [done EXCEPT !.subs = Append(@, r.t), !.outs = Append(@, r.out)]
         IN  CheckChildren(subs, md, clock,
                           IF r.out = "raise" THEN ChildRaised(d1) ELSE d1)

\* all(results) / any(results) / not all / not any; another operator: False
Combine(operator, outs) ==
    LET all == \A i \in 1..Len(outs) : outs[i] = "true"
        any == \E i \in 1..Len(outs) : outs[i] = "true"
    IN  CASE operator = "AND"  -> all
          [] operator = "OR"   -> any
          [] operator = "NAND" -> ~all
          [] operator = "NOR"  -> ~any
          [] OTHER             -> FALSE

\* CompositeTrigger.check
CompositeTrigger_check(t, md, clock) ==
    LET done == CheckChildren(t.sub_triggers, md, clock,
                              [subs |-> <<>>, outs |-> <<>>, raised |-> FALSE])
        \* the children checked carry their new state; the others are untouched
        subs1 == [i \in 1..Len(t.sub_triggers) |->
                    IF i <= Len(done.subs) THEN done.subs[i] ELSE t.sub_triggers[i]]
        t1 == [t EXCEPT !.sub_triggers = subs1]
    IN  IF done.raised THEN Res(t1, "raise", done.outs)
        ELSE IF Combine(t.params.operator, done.outs)
             THEN Res(Fire(t1, clock), "true", done.outs)
             ELSE Res(t1, "false", done.outs)

\* trigger.check(market_data), dispatched on the class of the instance
check(t, md, clock) ==
    CASE t.cls = "PriceAboveTrigger"        -> PriceAboveTrigger_check(t, md, clock)
      [] t.cls = "VolumeSpikeTrigger"       -> VolumeSpikeTrigger_check(t, md, clock)
      [] t.cls = "RSITrigger"               -> RSITrigger_check(t, md, clock)
      [] t.cls = "BollingerBreakoutTrigger" -> BollingerBreakoutTrigger_check(t, md, clock)
      [] t.cls = "MACDCrossTrigger"         -> MACDCrossTrigger_check(t, md, clock)
      [] t.cls = "TimeBasedTrigger"         -> TimeBasedTrigger_check(t, md, clock)
      [] t.cls = "CustomDSLTrigger"         -> CustomDSLTrigger_check(t, md, clock)
      [] t.cls = "CompositeTrigger"         -> CompositeTrigger_check(t, md, clock)

-----------------------------------------------------------------------------
(* check of the two edge detectors, statement by statement: c is the caller *)
(* (its position and locals), t the instance all callers share              *)

Goto(c, t, pc)  == [c |-> [c EXCEPT !.pc = pc], t |-> t]
Return(c, t, b) == [c |-> [c EXCEPT !.pc = "done", !.out = IF b THEN "true" ELSE "false"],
                    t |-> t]

\* MACDCrossTrigger.check without the statement that stores prev_signal
MACDStepSkipsSignal(c, t, clock) ==
    CASE c.pc = "test_seed" ->
            Goto(c, t, IF IsNone(t.prev_macd) \/ IsNone(t.prev_signal)
                       THEN "seed_macd" ELSE "compare")
      [] c.pc = "seed_macd" ->
            Goto(c, [t EXCEPT !.prev_macd = c.current_macd], "seed_signal")
      [] c.pc = "seed_signal" ->
            Return(c, [t EXCEPT !.prev_signal = c.current_signal], FALSE)
      [] c.pc = "compare" ->
            Goto([c EXCEPT !.triggered =
                    \/ /\ t.params.crossover_type = "bullish"
                       /\ AsInt(t.prev_macd) <= AsInt(t.prev_signal)
                       /\ AsInt(c.current_macd) > AsInt(c.current_signal)
                    \/ /\ t.params.crossover_type = "bearish"
                       /\ AsInt(t.prev_macd) >= AsInt(t.prev_signal)
                       /\ AsInt(c.current_macd) < AsInt(c.current_signal)],
                 t, "store_macd")
      [] c.pc = "store_macd" ->
            Goto(c, [t EXCEPT !.prev_macd = c.current_macd], "store_signal")
      [] c.pc = "store_signal" ->
            IF c.triggered THEN Goto(c, t, "stamp") ELSE Return(c, t, FALSE)
      [] c.pc = "stamp" ->
            Goto(c, [t EXCEPT !.last_triggered = Num(clock)], "count_read")
      [] c.pc = "count_read" ->
            Goto([c EXCEPT !.tmp = t.trigger_count], t, "count_write")
      [] c.pc = "count_write" ->
            Return(c, [t EXCEPT !.trigger_count = c.tmp + 1], TRUE)

\* MACDCrossTrigger.check: the next statement of the caller c
MACDStep(c, t, clock) ==
    CASE c.pc = "test_seed" ->
            Goto(c, t, IF IsNone(t.prev_macd) \/ IsNone(t.prev_signal)
                       THEN "seed_macd" ELSE "compare")
      [] c.pc = "seed_macd" ->
            Goto(c, [t EXCEPT !.prev_macd = c.current_macd], "seed_signal")
      [] c.pc = "seed_signal" ->
            Return(c, [t EXCEPT !.prev_signal = c.current_signal], FALSE)
      [] c.pc = "compare" ->
            Goto([c EXCEPT !.triggered =
                    \/ /\ t.params.crossover_type = "bullish"
                       /\ AsInt(t.prev_macd) <= AsInt(t.prev_signal)
                       /\ AsInt(c.current_macd) > AsInt(c.current_signal)
                    \/ /\ t.params.crossover_type = "bearish"
                       /\ AsInt(t.prev_macd) >= AsInt(t.prev_signal)
                       /\ AsInt(c.current_macd) < AsInt(c.current_signal)],
                 t, "store_macd")
      [] c.pc = "store_macd" ->
            Goto(c, [t EXCEPT !.prev_macd = c.current_macd], "store_signal")
      [] c.pc = "store_signal" ->
            IF c.triggered
            THEN Goto(c, [t EXCEPT !.prev_signal = c.current_signal], "stamp")
            ELSE Return(c, [t EXCEPT !.prev_signal = c.current_signal], FALSE)
      [] c.pc = "stamp" ->
            Goto(c, [t EXCEPT !.last_triggered = Num(clock)], "count_read")
      [] c.pc = "count_read" ->
            Goto([c EXCEPT !.tmp = t.trigger_count], t, "count_write")
      [] c.pc = "count_write" ->
            Return(c, [t EXCEPT !.trigger_count = c.tmp + 1], TRUE)

\* BollingerBreakoutTrigger.check: the next statement of the caller c
BollingerStep(c, t, clock) ==
    CASE c.pc = "test_band" ->
            Goto(c, t, IF BeyondBand(t.params.direction, c.md)
                       THEN "conf_read" ELSE "conf_zero")
      [] c.pc = "conf_read" ->
            Goto([c EXCEPT !.tmp = t.confirmation_count], t, "conf_write")
      [] c.pc = "conf_write" ->
            Goto(c, [t EXCEPT !.confirmation_count = c.tmp + 1], "test_period")
      [] c.pc = "conf_zero" ->
            Goto(c, [t EXCEPT !.confirmation_count = 0], "test_period")
      [] c.pc = "test_period" ->
            IF t.confirmation_count >= AsInt(t.params.confirmation_period)
            THEN Goto(c, t, "stamp") ELSE Return(c, t, FALSE)
      [] c.pc = "stamp" ->
            Goto(c, [t EXCEPT !.last_triggered = Num(clock)], "count_read")
      [] c.pc = "count_read" ->
            Goto([c EXCEPT !.tmp = t.trigger_count], t, "count_write")
      [] c.pc = "count_write" ->
            Goto(c, [t EXCEPT !.trigger_count = c.tmp + 1], "conf_reset")
      [] c.pc = "conf_reset" ->
            Return(c, [t EXCEPT !.confirmation_count = 0], TRUE)

\* a caller entering check(market_data): the fields of the snapshot are read
\* into locals
EnterCheck(t, md) ==
    [Idle EXCEPT !.pc = IF t.cls = "MACDCrossTrigger" THEN "test_seed" ELSE "test_band",
                 !.md = md,
                 !.current_macd = Get(md, "macd", Num(0)),
                 !.current_signal = Get(md, "macd_signal", Num(0))]

CheckStep(c, t, clock) ==
    IF t.cls = "MACDCrossTrigger" THEN MACDStep(c, t, clock)
    ELSE BollingerStep(c, t, clock)

\* the caller's market_data when trigger.check(market_data) has returned:
\* CustomDSLTrigger hands it to parse_dsl, CompositeTrigger to its children,
\* one after the other; the other classes only call market_data.get.  (A
\* child whose check raises would end the list comprehension of
\* CompositeTrigger.check; the later children, which the fold includes, would
\* not be handed the snapshot.)
RECURSIVE check_market_data(_, _), ChildrenMarketData(_, _, _)
ChildrenMarketData(subs, n, md) ==
    IF n = 0 THEN md
    ELSE check_market_data(subs[n], ChildrenMarketData(subs, n - 1, md))

check_market_data(t, md) ==
    CASE t.cls = "CustomDSLTrigger" -> parse_dsl_market_data(md)
      [] t.cls = "CompositeTrigger" ->
            ChildrenMarketData(t.sub_triggers, Len(t.sub_triggers), md)
      [] OTHER -> md

-----------------------------------------------------------------------------
(* TriggerFactory.create_trigger *)

\* what create_trigger did: the trigger returned, or the exception raised
Created(t)  == [ok |-> TRUE,  err |-> "none", t |-> t]
Failed(err) == [ok |-> FALSE, err |-> err,    t |-> NoTrigger]

\* the condition the factory passes to RSITrigger
RSIConditionSwapped(trigger_type) ==
    IF trigger_type = "rsi_overbought" THEN "below" ELSE "above"

RSICondition(trigger_type) ==
    IF trigger_type = "rsi_overbought" THEN "above" ELSE "below"

RECURSIVE create_trigger(_), CreateAll(_, _)

\* [TriggerFactory.create_trigger(t) for t in params['triggers']]
CreateAll(configs, built) ==
    IF Len(built) = Len(configs) THEN Created(built)
    ELSE LET r == create_trigger(configs[Len(built) + 1]) IN
         IF r.ok THEN CreateAll(configs, Append(built, r.t)) ELSE r

create_trigger(trigger_config) ==
    IF ~Has(trigger_config, "type") THEN Failed("KeyError")
    ELSE IF trigger_config.type \notin TriggerTypeValues THEN Failed("ValueError")
    ELSE
    LET trigger_type == trigger_config.type
        params       == Get(trigger_config, "params", EmptyMap)
    IN
    CASE trigger_type = "price_above" ->
            IF Has(params, "threshold") THEN Created(PriceAboveTrigger(params.threshold))
            ELSE Failed("KeyError")
      [] trigger_type = "price_below" ->
            IF Has(params, "threshold") THEN Created(PriceAboveTrigger(params.threshold))
            ELSE Failed("KeyError")
      [] trigger_type = "volume_spike" ->
            Created(VolumeSpikeTrigger(Get(params, "multiplier", Num(3)),
                                       Get(params, "lookback_period", Num(20))))
      [] trigger_type \in {"rsi_overbought", "rsi_oversold"} ->
            IF Has(params, "threshold")
            THEN Created(RSITrigger(params.threshold, RSICondition(trigger_type)))
            ELSE Failed("KeyError")
      [] trigger_type = "bollinger_breakout" ->
            Created(BollingerBreakoutTrigger(Get(params, "direction", "upper"),
                                             Get(params, "confirmation_period", Num(2))))
      [] trigger_type = "macd_crossover" ->
            Created(MACDCrossTrigger(Get(params, "crossover_type", "bullish")))
      [] trigger_type = "scheduled_time" ->
            IF Has(params, "condition") /\ Has(params, "value")
            THEN Created(TimeBasedTrigger(params.condition, params.value))
            ELSE Failed("KeyError")
      [] trigger_type = "custom_dsl" ->
            IF Has(params, "dsl_expression")
            THEN Created(CustomDSLTrigger(params.dsl_expression))
            ELSE Failed("KeyError")
      [] trigger_type = "composite_trigger" ->
            IF ~Has(params, "triggers") THEN Failed("KeyError")
            ELSE LET subs == CreateAll(params.triggers, <<>>) IN
                 IF subs.ok
                 THEN Created(CompositeTrigger(subs.t, Get(params, "operator", "AND")))
                 ELSE subs
      [] OTHER -> Failed("ValueError")      \* "Unknown trigger type"

\* TriggerManager.get_supported_trigger_types: the 'type' of the entries, one
\* for every member of TriggerType
get_supported_trigger_types == TriggerTypeValues

\* TriggerManager._get_params_schema: the parameters marked 'required': True
RequiredParams(trigger_type) ==
    CASE trigger_type = "price_above"    -> {"threshold"}
      [] trigger_type = "volume_spike"   -> {"multiplier", "lookback_period"}
      [] trigger_type = "rsi_overbought" -> {"threshold"}
      [] trigger_type = "custom_dsl"     -> {"dsl_expression"}
      [] OTHER                           -> {}

-----------------------------------------------------------------------------
(* alerts/triggers/manager.py: TriggerManager *)

\* self.max_history_size
max_history_size == 1000

\* the registry is a dict: an entry per id, in insertion order
Ids(reg)       == {reg[i].id : i \in 1..Len(reg)}
IndexOf(reg, id) == CHOOSE i \in 1..Len(reg) : reg[i].id = id

\* a registry that keeps the trigger it already has under an id
add_triggerKeepFirst(reg, trigger_id, t) ==
    IF trigger_id \in Ids(reg) THEN reg
    ELSE Append(reg, [id |-> trigger_id, trig |-> t])

\* TriggerManager.add_trigger: the registry afterwards (assigning to an
\* existing key keeps its place in the dict)
add_trigger(reg, trigger_id, t) ==
    IF trigger_id \in Ids(reg)
    THEN [reg EXCEPT ![IndexOf(reg, trigger_id)] = [id |-> trigger_id, trig |-> t]]
    ELSE Append(reg, [id |-> trigger_id, trig |-> t])

\* a removal that drops every entry from the one removed on
remove_triggerTruncating(reg, trigger_id) ==
    SubSeq(reg, 1, IndexOf(reg, trigger_id) - 1)

\* TriggerManager.remove_trigger: del self.triggers[trigger_id]
remove_trigger(reg, trigger_id) ==
    LET k == IndexOf(reg, trigger_id) IN
    SubSeq(reg, 1, k - 1) \o SubSeq(reg, k + 1, Len(reg))

\* the trigger_info record of check_triggers
TriggerInfo(trigger_id, t, md, clock) ==
    [trigger_id |-> trigger_id,
     trigger_type |-> t.trigger_type,
     params |-> t.params,
     timestamp |-> clock,
     market_data_snapshot |->
        [price  |-> Get(md, "price", None),
         volume |-> Get(md, "volume", None),
         symbol |-> Get(md, "symbol", Str("unknown"))]]

\* trigger_history.append(info) with the slice keeping the first
\* max_history_size entries instead of the last
AppendHistoryKeepOldest(history, info) ==
    LET h == Append(history, info) IN
    IF Len(h) > max_history_size THEN SubSeq(h, 1, max_history_size) ELSE h

\* self.trigger_history.append(trigger_info), then the slice to the last
\* max_history_size entries
AppendHistory(history, info) ==
    LET h == Append(history, info) IN
    IF Len(h) > max_history_size THEN LastN(h, max_history_size) ELSE h

\* an exception of trigger.check re-raised instead of skipped
OnCheckExceptionReraise(acc) == [acc EXCEPT !.raised = TRUE]

\* except Exception: print(...); continue
OnCheckException(acc) == acc

\* a pass of the loop that drops the trigger from the registry when its
\* check raised
CheckedDropsRaising(acc, k, r) ==
    [acc EXCEPT !.reg = IF r.out = "raise"
                        THEN SubSeq(@, 1, k - 1) \o SubSeq(@, k + 1, Len(@))
                        ELSE [@ EXCEPT ![k].trig = r.t],
                !.log = Append(@, [id |-> acc.reg[k].id, out |-> r.out])]

\* the bookkeeping of one pass of the loop: the trigger as its check left it,
\* and the check made with its outcome
Checked(acc, k, r) ==
    [acc EXCEPT !.reg[k].trig = r.t,
                !.log = Append(@, [id |-> acc.reg[k].id, out |-> r.out])]

\* the body of the try statement after trigger.check returned or raised
Settle(a1, out, info) ==
    CASE out = "true"  -> [a1 EXCEPT !.triggered = Append(@, info),
                                     !.history = AppendHistory(@, info)]
      [] out = "false" -> a1
      [] out = "raise" -> OnCheckException(a1)

\* one pass of the loop, r being what trigger.check did
LoopBody(acc, k, r, md, clock) ==
    Settle(Checked(acc, k, r), r.out, TriggerInfo(acc.reg[k].id, r.t, md, clock))

\* the loop of check_triggers over self.triggers.items(), from entry k on.
\* acc = [reg: the registry with the triggers checked so far updated,
\*        triggered: the list returned, history, log: every check made with
\*        its outcome, raised: an exception left check_triggers]
RECURSIVE CheckLoop(_, _, _, _)
CheckLoop(k, md, clock, acc) ==
    IF acc.raised \/ k > Len(acc.reg) THEN acc
    ELSE CheckLoop(k + 1, md, clock,
                   LoopBody(acc, k, check(acc.reg[k].trig, md, clock), md, clock))

\* TriggerManager.check_triggers
check_triggers(reg, history, md, clock) ==
    CheckLoop(1, md, clock,
              [reg |-> reg, triggered |-> <<>>, history |-> history, log |-> <<>>,
               raised |-> FALSE])

\* the number of recent events get_trigger_stats reports
RecentCount == 10

\* the oldest RecentCount events instead of the newest
RecentOldest(history) ==
    IF Len(history) > RecentCount THEN SubSeq(history, 1, RecentCount) ELSE history

\* self.trigger_history[-10:] if self.trigger_history else []
Recent(history) == IF history # <<>> THEN LastN(history, RecentCount) ELSE <<>>

\* TriggerManager.get_trigger_stats; the two dicts are functions
get_trigger_stats(reg, history) ==
    [total_triggers  |-> Len(reg),
     trigger_counts  |-> [id \in Ids(reg) |-> reg[IndexOf(reg, id)].trig.trigger_count],
     recent_triggers |-> Recent(history),
     trigger_types   |->
        [ty \in {reg[i].trig.trigger_type : i \in 1..Len(reg)} |->
            Cardinality({i \in 1..Len(reg) : reg[i].trig.trigger_type = ty})]]

-----------------------------------------------------------------------------
(* alerts/models.py: Alert.is_valid *)

\* A datetime is counted in whole minutes from the start of its day.
MinuteField(t) == t % 60

\* t.replace(minute=m): the minute field exchanged; ValueError unless
\* m is in 0..59
ReplaceMinute(t, m) ==
    IF m >= 0 /\ m <= 59 THEN Val(Num(t - MinuteField(t) + m)) ELSE Raise

\* Alert.is_valid(): "true", "false" or "raise"
is_valid(alert, clock) ==
    IF alert.status # "active" THEN "false"
    ELSE IF ~IsNone(alert.valid_from) /\ clock < AsInt(alert.valid_from) THEN "false"
    ELSE IF ~IsNone(alert.valid_until) /\ clock > AsInt(alert.valid_until) THEN "false"
    ELSE IF alert.trigger_count >= alert.max_daily_triggers THEN "false"
    ELSE IF ~IsNone(alert.last_triggered)
    THEN LET cooldown_end ==
                ReplaceMinute(AsInt(alert.last_triggered),
                              MinuteField(AsInt(alert.last_triggered))
                                  + alert.cooldown_minutes)
         IN  IF ~cooldown_end.ok THEN "raise"
             ELSE IF clock < AsInt(cooldown_end.val) THEN "false"
             ELSE "true"
    ELSE "true"

-----------------------------------------------------------------------------
(* Specification SpecEval: DSLEngine.evaluate on any expression and context *)

InitOther ==
    /\ engine = DSLEngine
    /\ config = NoConfig /\ created = "none" /\ trig = NoTrigger /\ twin = NoTrigger
    /\ trace = <<>>
    /\ triggers = <<>> /\ trigger_history = <<>> /\ ret = [op |-> "none"]
    /\ fired_log = <<>>
    /\ threads = NoThreads
    /\ now = 0

InitEval ==
    /\ expr \in Exprs
    /\ context \in Contexts
    /\ evalOut = NoEval
    /\ epc = "ready"
    /\ InitOther

\* result = engine.evaluate(tree, context)
Evaluate ==
    /\ epc = "ready"
    /\ evalOut' = evaluate(expr, context)
    /\ engine' = evaluate_self(engine, expr, context)
    /\ epc' = "done"
    /\ UNCHANGED <<expr, context, trigVars, mgrVars, now, threads>>

NextEval == Evaluate

SpecEval == InitEval /\ [][NextEval]_vars

-----------------------------------------------------------------------------
(* Specification SpecTrigger: a trigger is built by the factory from any    *)
(* config, rebuilt from its to_dict(), and both instances are checked       *)
(* against the same snapshots.                                              *)

MaxTicks    == 3      \* checks made on one trigger
MaxPeriod   == 2      \* confirmation_period values MinPeriod..MaxPeriod
MinPeriod   == 0 - 1  \* the factory accepts any confirmation_period
TickSeconds == 100    \* wall-clock time between two ticks

\* Market snapshots.  The ingestion side supplies numbers for the numeric
\* fields it sets; any field may be missing.
Snapshots ==
    { [price |-> Num(12), volume |-> Num(10), volume_history |-> List(<<Num(1), Num(1)>>),
       rsi |-> Num(20), macd |-> Num(1), macd_signal |-> Num(2),
       bb_upper |-> Num(10), bb_lower |-> Num(5)],
      [price |-> Num(12), volume |-> Num(2), volume_history |-> List(<<Num(1), Num(1)>>),
       rsi |-> Num(80), macd |-> Num(3), macd_signal |-> Num(2),
       bb_upper |-> Num(10), bb_lower |-> Num(5)],
      [price |-> Num(3), macd |-> Num(2), macd_signal |-> Num(2),
       bb_upper |-> Num(10), bb_lower |-> Num(5)],
      [price |-> Num(10), rsi |-> Num(70), macd |-> Num(1), macd_signal |-> Num(3),
       bb_upper |-> Num(10), bb_lower |-> Num(5)],
      [price |-> Num(0 - 10), volume |-> Num(3),
       volume_history |-> List(<<Num(9), Num(1), Num(1)>>)],
      [symbol |-> Str("BTC")] }

Cfg(type, params) == [type |-> type, params |-> params]

\* configs of the triggers a composite is built from
ChildConfigs ==
    { Cfg("price_above", [threshold |-> Num(10)]),      \* fires on some snapshots
      Cfg("price_above", [threshold |-> Num(0 - 100)]), \* always fires
      Cfg("price_above", [threshold |-> Num(100)]),     \* never fires
      Cfg("price_above", [threshold |-> None]),         \* check raises TypeError
      Cfg("macd_crossover", [crossover_type |-> "bullish"]) }

LeafConfigs ==
    ChildConfigs \cup
    { Cfg("price_above", EmptyMap),
      Cfg("price_below", [threshold |-> Num(10)]),
      Cfg("price_below", EmptyMap),
      Cfg("volume_spike", EmptyMap),
      Cfg("volume_spike", [multiplier |-> Num(2), lookback_period |-> Num(2)]),
      Cfg("volume_spike", [multiplier |-> Num(2)]),
      Cfg("rsi_overbought", [threshold |-> Num(70)]),
      Cfg("rsi_oversold", [threshold |-> Num(30)]),
      Cfg("rsi_overbought", EmptyMap),
      Cfg("bollinger_breakout", EmptyMap),
      Cfg("bollinger_breakout", [direction |-> "lower", confirmation_period |-> Num(2)]),
      Cfg("macd_crossover", [crossover_type |-> "bearish"]),
      Cfg("macd_crossover", EmptyMap),
      Cfg("scheduled_time", [condition |-> "day_of_week", value |-> Num(0)]),
      Cfg("scheduled_time", [condition |-> "specific_time", value |-> None]),
      Cfg("scheduled_time", [condition |-> "day_of_week"]),
      Cfg("custom_dsl", [dsl_expression |-> "price > 10"]),
      Cfg("custom_dsl", [dsl_expression |-> "price >"]),
      Cfg("custom_dsl", [dsl_expression |-> "foo(price)"]),
      Cfg("custom_dsl", [dsl_expression |-> "price.real > 10"]),
      Cfg("custom_dsl", [dsl_expression |-> "len(volume_history) > 1"]),
      Cfg("custom_dsl", [dsl_expression |-> "price"]),
      Cfg("custom_dsl", EmptyMap),
      Cfg("price_cross_above", [threshold |-> Num(10)]),   \* in the enum, no branch
      Cfg("bogus", [threshold |-> Num(10)]),               \* not in the enum
      [params |-> [threshold |-> Num(10)]],                \* no 'type'
      [type |-> "macd_crossover"] }                        \* no 'params'
    \cup { Cfg("bollinger_breakout", [direction |-> "upper", confirmation_period |-> Num(k)]) :
            k \in MinPeriod..MaxPeriod }

CompositeConfigs ==
    { Cfg("composite_trigger", [triggers |-> <<a, b>>, operator |-> o]) :
        a \in ChildConfigs, b \in ChildConfigs, o \in {"AND", "OR", "NAND", "NOR"} }
    \cup
    { Cfg("composite_trigger", [triggers |-> <<a>>]) : a \in ChildConfigs }
    \cup
    { Cfg("composite_trigger", [operator |-> "AND"]),
      Cfg("composite_trigger",
          [triggers |-> << Cfg("price_above", [threshold |-> Num(10)]),
                           Cfg("bogus", EmptyMap) >>, operator |-> "OR"]),
      Cfg("composite_trigger",
          [triggers |-> << Cfg("composite_trigger",
                               [triggers |-> << Cfg("price_above", [threshold |-> Num(10)]),
                                                Cfg("rsi_oversold", [threshold |-> Num(30)]) >>,
                                operator |-> "OR"]),
                           Cfg("macd_crossover", [crossover_type |-> "bullish"]) >>,
           operator |-> "XOR"]),
      Cfg("composite_trigger",
          [triggers |-> << Cfg("composite_trigger",
                               [triggers |-> << Cfg("price_above", [threshold |-> Num(10)]),
                                                Cfg("rsi_oversold", [threshold |-> Num(30)]) >>,
                                operator |-> "OR"]),
                           Cfg("macd_crossover", [crossover_type |-> "bullish"]) >>,
           operator |-> "NAND"]) }

Configs == LeafConfigs \cup CompositeConfigs

InitTrigger ==
    /\ engine = DSLEngine
    /\ config \in Configs
    /\ created = "none" /\ trig = NoTrigger /\ twin = NoTrigger /\ trace = <<>>
    /\ expr = Lit(1) /\ context = [price |-> Num(2)] /\ evalOut = NoEval /\ epc = "ready"
    /\ triggers = <<>> /\ trigger_history = <<>> /\ ret = [op |-> "none"]
    /\ fired_log = <<>>
    /\ threads = NoThreads
    /\ now = 0

\* t = TriggerFactory.create_trigger(config); u = TriggerFactory.create_trigger(t.to_dict())
Create ==
    /\ created = "none"
    /\ LET r == create_trigger(config) IN
       /\ created' = IF r.ok THEN "ok" ELSE r.err
       /\ trig' = r.t
       /\ twin' = IF r.ok THEN create_trigger(to_dict(r.t)).t ELSE NoTrigger
    /\ UNCHANGED <<engine, config, trace, evalVars, mgrVars, now, threads>>

\* t.check(market_data); u.check(market_data)
CheckTick ==
    /\ created = "ok"
    /\ Len(trace) < MaxTicks
    /\ \E md \in Snapshots :
        LET r == check(trig, md, now)
            u == check(twin, md, now)
        IN  /\ trig' = r.t
            /\ twin' = u.t
            /\ trace' = Append(trace, [md |-> md, out |-> r.out, kids |-> r.kids,
                                       twinOut |-> u.out, twinKids |-> u.kids])
    /\ now' = now + TickSeconds
    /\ UNCHANGED <<engine, config, created, evalVars, mgrVars, threads>>

\* t.reset(); u.reset()
Reset ==
    /\ created = "ok"
    /\ trig' = reset(trig)
    /\ twin' = reset(twin)
    /\ UNCHANGED <<engine, config, created, trace, now, evalVars, mgrVars, threads>>

NextTrigger == Create \/ CheckTick \/ Reset

SpecTrigger == InitTrigger /\ [][NextTrigger]_vars

-----------------------------------------------------------------------------
(* Specification SpecManager: any sequence of TriggerManager operations *)

MaxMgrTicks == 2      \* calls of check_triggers

TriggerIds == {"a", "b"}

MgrConfigs ==
    { Cfg("price_above", [threshold |-> Num(10)]),
      Cfg("price_above", [threshold |-> None]),          \* check raises TypeError
      Cfg("macd_crossover", [crossover_type |-> "bullish"]) }

MgrSnapshots ==
    { [price |-> Num(12), volume |-> Num(2), volume_history |-> List(<<Num(1), Num(1)>>),
       rsi |-> Num(80), macd |-> Num(3), macd_signal |-> Num(2),
       bb_upper |-> Num(10), bb_lower |-> Num(5)],
      [symbol |-> Str("BTC")] }

InitManager ==
    /\ engine = DSLEngine
    /\ triggers = <<>> /\ trigger_history = <<>> /\ ret = [op |-> "none"]
    /\ fired_log = <<>>
    /\ threads = NoThreads
    /\ now = 0
    /\ expr = Lit(1) /\ context = [price |-> Num(2)] /\ evalOut = NoEval /\ epc = "ready"
    /\ config = NoConfig /\ created = "none" /\ trig = NoTrigger /\ twin = NoTrigger
    /\ trace = <<>>

\* the caller's market_data when check_triggers has checked the first n
\* triggers of the registry
RECURSIVE check_triggers_market_data(_, _, _)
check_triggers_market_data(reg, n, md) ==
    IF n = 0 THEN md
    ELSE check_market_data(reg[n].trig, check_triggers_market_data(reg, n - 1, md))

\* add_trigger dropping the entry of the id before it builds the trigger
AddTriggerDropsFirst(trigger_id, trigger_config) ==
    LET r == create_trigger(trigger_config) IN
    /\ triggers' = IF r.ok THEN add_trigger(triggers, trigger_id, r.t)
                   ELSE IF trigger_id \in Ids(triggers)
                        THEN remove_trigger(triggers, trigger_id) ELSE triggers
    /\ ret' = [op |-> "add_trigger", id |-> trigger_id, raised |-> ~r.ok]
    /\ UNCHANGED <<engine, trigger_history, fired_log, now, evalVars, trigVars, threads>>

\* manager.add_trigger(trigger_id, trigger_config)
AddTrigger(trigger_id, trigger_config) ==
    LET r == create_trigger(trigger_config) IN
    /\ triggers' = IF r.ok THEN add_trigger(triggers, trigger_id, r.t) ELSE triggers
    /\ ret' = [op |-> "add_trigger", id |-> trigger_id, raised |-> ~r.ok]
    /\ UNCHANGED <<engine, trigger_history, fired_log, now, evalVars, trigVars, threads>>

\* manager.remove_trigger(trigger_id)
RemoveTrigger(trigger_id) ==
    /\ triggers' = IF trigger_id \in Ids(triggers)
                   THEN remove_trigger(triggers, trigger_id) ELSE triggers
    /\ ret' = [op |-> "remove_trigger", id |-> trigger_id,
               value |-> trigger_id \in Ids(triggers)]
    /\ UNCHANGED <<engine, trigger_history, fired_log, now, evalVars, trigVars, threads>>

\* manager.reset_trigger(trigger_id)
ResetTrigger(trigger_id) ==
    /\ triggers' = IF trigger_id \in Ids(triggers)
                   THEN [triggers EXCEPT ![IndexOf(triggers, trigger_id)].trig = reset(@)]
                   ELSE triggers
    /\ ret' = [op |-> "reset_trigger", id |-> trigger_id,
               value |-> trigger_id \in Ids(triggers)]
    /\ UNCHANGED <<engine, trigger_history, fired_log, now, evalVars, trigVars, threads>>

\* manager.get_trigger_stats()
GetStats ==
    /\ ret' = [op |-> "get_trigger_stats",
               value |-> get_trigger_stats(triggers, trigger_history)]
    /\ UNCHANGED <<engine, triggers, trigger_history, fired_log, now, evalVars, trigVars, threads>>

\* the state after check_triggers did r
Checking(r) ==
    /\ triggers' = r.reg
    /\ trigger_history' = r.history
    /\ fired_log' = fired_log \o r.triggered
    /\ ret' = [op |-> "check_triggers", raised |-> r.raised,
               triggered |-> r.triggered, log |-> r.log]
    /\ now' = now + TickSeconds
    /\ UNCHANGED <<engine, evalVars, trigVars, threads>>

\* manager.check_triggers(market_data)
CheckTriggers(md) == Checking(check_triggers(triggers, trigger_history, md, now))

\* configs the factory rejects: a type outside the enum, a type without a
\* branch, a missing required parameter, a composite with such a child
MgrBadConfigs ==
    { Cfg("bogus", EmptyMap),
      Cfg("price_cross_above", [threshold |-> Num(10)]),
      Cfg("price_above", EmptyMap),
      Cfg("composite_trigger",
          [triggers |-> << Cfg("price_above", [threshold |-> Num(10)]),
                           Cfg("price_above", EmptyMap) >>]) }

MgrAdd    == \E id \in TriggerIds, c \in MgrConfigs \cup MgrBadConfigs :
                AddTrigger(id, c)
MgrRemove == \E id \in TriggerIds : RemoveTrigger(id)
MgrReset  == \E id \in TriggerIds : ResetTrigger(id)
MgrCheck  == /\ now < MaxMgrTicks * TickSeconds
             /\ \E md \in MgrSnapshots : CheckTriggers(md)

NextManager == MgrAdd \/ MgrRemove \/ MgrReset \/ MgrCheck \/ GetStats

SpecManager == InitManager /\ [][NextManager]_vars

-----------------------------------------------------------------------------
(* Specification SpecHistory: a manager whose triggers fire on every tick,  *)
(* run long enough for trigger_history to overflow                          *)

MaxEmitted == 1050    \* check_triggers is called while fewer events were emitted

HistConfigs ==
    { Cfg("price_above", [threshold |-> Num(10)]),
      Cfg("rsi_overbought", [threshold |-> Num(70)]) }

HistSnapshot == [price |-> Num(12), volume |-> Num(2), rsi |-> Num(80)]

\* the registry is filled before the first tick
HistAdd   == /\ fired_log = <<>> /\ now = 0
             /\ \E id \in TriggerIds \ Ids(triggers), c \in HistConfigs : AddTrigger(id, c)
HistCheck == /\ triggers # <<>>
             /\ Len(fired_log) < MaxEmitted
             /\ CheckTriggers(HistSnapshot)

NextHistory == HistAdd \/ HistCheck \/ GetStats

SpecHistory == InitManager /\ [][NextHistory]_vars

-----------------------------------------------------------------------------
(* Specification SpecRace: two callers run check on one MACDCrossTrigger or  *)
(* BollingerBreakoutTrigger instance, statement by statement, with nothing   *)
(* that keeps one caller out while the other is inside                       *)

MaxSeedChecks == 1    \* checks completed before the two callers enter

RaceConfigs ==
    { Cfg("macd_crossover", [crossover_type |-> "bullish"]),
      Cfg("bollinger_breakout", [direction |-> "upper", confirmation_period |-> Num(2)]) }

RaceSnapshots ==
    { [price |-> Num(12), bb_upper |-> Num(10), bb_lower |-> Num(5),
       macd |-> Num(3), macd_signal |-> Num(2)],
      [price |-> Num(3), bb_upper |-> Num(10), bb_lower |-> Num(5),
       macd |-> Num(1), macd_signal |-> Num(3)] }

Callers == {1, 2}
Inside(c) == c.pc \notin {"idle", "done"}

InitRace ==
    /\ engine = DSLEngine
    /\ config \in RaceConfigs
    /\ trig = create_trigger(config).t
    /\ created = "ok" /\ twin = NoTrigger /\ trace = <<>>
    /\ threads = NoThreads
    /\ expr = Lit(1) /\ context = [price |-> Num(2)] /\ evalOut = NoEval /\ epc = "ready"
    /\ triggers = <<>> /\ trigger_history = <<>> /\ ret = [op |-> "none"]
    /\ fired_log = <<>>
    /\ now = 0

\* a whole check made before any of the two callers entered
SeedCheck ==
    /\ threads.order = <<>>
    /\ Len(trace) < MaxSeedChecks
    /\ \E md \in RaceSnapshots :
          LET r == check(trig, md, now) IN
          /\ trig' = r.t
          /\ trace' = Append(trace, [md |-> md, out |-> r.out, kids |-> r.kids,
                                     twinOut |-> r.out, twinKids |-> r.kids])
    /\ UNCHANGED <<engine, config, created, twin, threads, now, evalVars, mgrVars>>

\* caller i enters trig.check(md)
Enter(i) ==
    /\ threads.callers[i].pc = "idle"
    /\ \E md \in RaceSnapshots :
          threads' = [threads EXCEPT
                        !.callers[i] = EnterCheck(trig, md),
                        !.base = IF threads.order = <<>> THEN trig ELSE @,
                        !.order = Append(@, i),
                        !.overlap = @ \/ \E j \in Callers : Inside(threads.callers[j])]
    /\ UNCHANGED <<engine, config, created, trig, twin, trace, now, evalVars, mgrVars>>

\* the state after caller i made the step r
Stepped(i, r) ==
    /\ threads' = [threads EXCEPT !.callers[i] = r.c]
    /\ trig' = r.t
    /\ UNCHANGED <<engine, config, created, twin, trace, now, evalVars, mgrVars>>

\* caller i executes its next statement
Step(i) ==
    /\ Inside(threads.callers[i])
    /\ Stepped(i, CheckStep(threads.callers[i], trig, now))

NextRace == SeedCheck \/ (\E i \in Callers : Enter(i)) \/ (\E i \in Callers : Step(i))

SpecRace == InitRace /\ [][NextRace]_vars

-----------------------------------------------------------------------------
(* Specification SpecSchedule: one TimeBasedTrigger checked and reset while *)
(* the wall clock moves, by less than, exactly and more than the cooldown,  *)
(* and backwards                                                            *)

StepShort      == 100     \* seconds of a short move of the clock
MaxClock       == 700     \* the clock stays within 0 .. MaxClock
MaxSchedChecks == 4       \* checks and resets made

ClockSteps == {StepShort, CooldownSeconds, CooldownSeconds + 1}

ScheduleConfigs ==
    { Cfg("scheduled_time", [condition |-> "day_of_week", value |-> Num(0)]),
      Cfg("scheduled_time", [condition |-> "specific_time", value |-> TimeOfDay(0, 5)]),
      Cfg("scheduled_time", [condition |-> "time_window",
                             value |-> <<"tuple", <<TimeOfDay(0, 0), TimeOfDay(0, 10)>> >>]) }

InitSchedule ==
    /\ engine = DSLEngine
    /\ config \in ScheduleConfigs
    /\ trig = create_trigger(config).t
    /\ created = "ok" /\ twin = NoTrigger /\ trace = <<>>
    /\ threads = NoThreads
    /\ expr = Lit(1) /\ context = [price |-> Num(2)] /\ evalOut = NoEval /\ epc = "ready"
    /\ triggers = <<>> /\ trigger_history = <<>> /\ ret = [op |-> "none"]
    /\ fired_log = <<>>
    /\ now = 0

\* datetime.utcnow() moves forward
ClockForward ==
    /\ \E d \in ClockSteps : now + d <= MaxClock /\ now' = now + d
    /\ UNCHANGED <<engine, trigVars, evalVars, mgrVars, threads>>

\* datetime.utcnow() is set back, right after a check that fired
ClockBack ==
    /\ now >= StepShort
    /\ trace # <<>> /\ trace[Len(trace)].out = "true" /\ trace[Len(trace)].at = now
    /\ now' = now - StepShort
    /\ UNCHANGED <<engine, trigVars, evalVars, mgrVars, threads>>

\* t.check(market_data) at the current time
SchedCheck ==
    /\ Len(trace) < MaxSchedChecks
    /\ LET r == check(trig, EmptyMap, now) IN
       /\ trig' = r.t
       /\ trace' = Append(trace, [op |-> "check", out |-> r.out, at |-> now])
    /\ UNCHANGED <<engine, config, created, twin, now, evalVars, mgrVars, threads>>

\* t.reset()
SchedReset ==
    /\ Len(trace) < MaxSchedChecks
    /\ trig' = reset(trig)
    /\ trace' = Append(trace, [op |-> "reset", out |-> "none", at |-> now])
    /\ UNCHANGED <<engine, config, created, twin, now, evalVars, mgrVars, threads>>

NextSchedule == ClockForward \/ ClockBack \/ SchedCheck \/ SchedReset

SpecSchedule == InitSchedule /\ [][NextSchedule]_vars

-----------------------------------------------------------------------------
(* Specification SpecEngine: one engine is called several times, with any   *)
(* expressions and contexts, one call after the other                       *)

MaxEngineCalls == 3     \* calls made on the engine

EngineExprs ==
    {NameNode("price"), NameNode("true"), NameNode("unbound"), AbsCall, UnknownCall,
     NowCall, <<"BinOp", "Add", NameNode("price"), Lit(1)>>}

EngineContexts ==
    { [price |-> Num(2)],
      [price |-> Num(3), true |-> Num(7)] }

EngineSnapshots ==
    { [price |-> Num(12), prices |-> List(<<Num(11), Num(12)>>)],
      [price |-> Num(3)] }

InitEngine ==
    /\ engine = DSLEngine
    /\ trace = <<>>
    /\ config = NoConfig /\ created = "none" /\ trig = NoTrigger /\ twin = NoTrigger
    /\ expr = Lit(1) /\ context = [price |-> Num(2)] /\ evalOut = NoEval /\ epc = "ready"
    /\ triggers = <<>> /\ trigger_history = <<>> /\ ret = [op |-> "none"]
    /\ fired_log = <<>>
    /\ threads = NoThreads
    /\ now = 0

\* the state after a call of the engine that did r
EngineCalled(op, src, tree, ctx, r, eng) ==
    /\ engine' = eng
    /\ trace' = Append(trace, [op |-> op, src |-> src, tree |-> tree, context |-> ctx,
                               ok |-> r.ok, val |-> r.val])
    /\ UNCHANGED <<config, created, trig, twin, evalVars, mgrVars, threads, now>>

\* engine.evaluate(tree, context)
EngineEvaluate ==
    /\ Len(trace) < MaxEngineCalls
    /\ \E e \in EngineExprs, ctx \in EngineContexts :
          EngineCalled("evaluate", "tree", e, ctx, evaluate(e, ctx),
                       evaluate_self(engine, e, ctx))

\* engine.parse_dsl(text, market_data)
EngineParse ==
    /\ Len(trace) < MaxEngineCalls
    /\ \E text \in DslTexts, md \in EngineSnapshots :
          EngineCalled("parse_dsl", text, Parse(text).tree, md, parse_dsl(text, md),
                       parse_dsl_self(engine, text, md))

\* engine.validate_dsl(text): it returns a record on every text
EngineValidate ==
    /\ Len(trace) < MaxEngineCalls
    /\ \E text \in DslTexts :
          /\ trace' = Append(trace, [op |-> "validate_dsl", src |-> text,
                                     tree |-> Parse(text).tree, context |-> EmptyMap,
                                     ok |-> TRUE, val |-> validate_dsl(text)])
    /\ UNCHANGED <<engine, config, created, trig, twin, evalVars, mgrVars, threads, now>>

NextEngine == EngineEvaluate \/ EngineParse \/ EngineValidate

SpecEngine == InitEngine /\ [][NextEngine]_vars

-----------------------------------------------------------------------------
(* Specification SpecIndicators: sma or atr is called once on any input *)

MaxSeries    == 3      \* length of the series drawn exhaustively
MaxCallPeriod == 5     \* periods 0..MaxCallPeriod

PriceValues == {1, 2, 4}
PriceSeries ==
    UNION { [1..n -> {Num(v) : v \in PriceValues}] : n \in 0..MaxSeries }
        \cup { <<Num(1), Num(2), Num(3), Num(4), Num(5)>> }

\* bars as (high, low, close), low <= close <= high
Bars == { <<12, 9, 11>>, <<10, 8, 9>>, <<5, 5, 5>> }
BarSeries == UNION { [1..n -> Bars] : n \in 0..MaxSeries }
Column(bars, c, short) ==
    [k \in 1..(IF short /\ Len(bars) > 0 THEN Len(bars) - 1 ELSE Len(bars)) |->
        Num(bars[k][c])]

SmaInputs ==
    { [fn |-> "sma", prices |-> ps, period |-> p] :
        ps \in PriceSeries, p \in 0..MaxCallPeriod }
\* the three series of the same bars; one of them may be one bar short
AtrInputs ==
    { [fn |-> "atr", highs |-> Column(b, 1, short = "highs"),
       lows |-> Column(b, 2, short = "lows"), closes |-> Column(b, 3, short = "closes"),
       period |-> p] :
        b \in BarSeries, short \in {"none", "highs", "lows", "closes"},
        p \in 0..MaxSeries }

InitIndicators ==
    /\ engine = DSLEngine
    /\ context \in SmaInputs \cup AtrInputs
    /\ ret = [op |-> "none"]
    /\ expr = Lit(1) /\ evalOut = NoEval /\ epc = "ready"
    /\ config = NoConfig /\ created = "none" /\ trig = NoTrigger /\ twin = NoTrigger
    /\ trace = <<>>
    /\ triggers = <<>> /\ trigger_history = <<>> /\ fired_log = <<>>
    /\ threads = NoThreads
    /\ now = 0

\* engine.functions['sma'].func(prices, period)
CallSma ==
    /\ ret.op = "none" /\ context.fn = "sma"
    /\ ret' = [op |-> "sma", out |-> calculate_sma(context.prices, context.period)]
    /\ UNCHANGED <<engine, expr, context, evalOut, epc, config, created, trig, twin, trace,
                   triggers, trigger_history, fired_log, threads, now>>

\* engine.functions['atr'].func(highs, lows, closes, period)
CallAtr ==
    /\ ret.op = "none" /\ context.fn = "atr"
    /\ ret' = [op |-> "atr", out |-> calculate_atr(context.highs, context.lows,
                                                   context.closes, context.period)]
    /\ UNCHANGED <<engine, expr, context, evalOut, epc, config, created, trig, twin, trace,
                   triggers, trigger_history, fired_log, threads, now>>

NextIndicators == CallSma \/ CallAtr

SpecIndicators == InitIndicators /\ [][NextIndicators]_vars

-----------------------------------------------------------------------------
(* Specification SpecAlert: is_valid is called on any alert at any time *)

MaxCooldown == 6      \* cooldown_minutes 0..MaxCooldown

\* times of one day in minutes: 00:00, 00:05, 00:54, 00:58, 00:59, 01:03, 01:58
AlertTimes == {0, 5, 54, 58, 59, 63, 118}

Alerts ==
    [ status             : {"active", "paused"},
      valid_from         : {None, Num(5)},
      valid_until        : {None, Num(63)},
      trigger_count      : {0, 10},
      max_daily_triggers : {10},
      cooldown_minutes   : 0..MaxCooldown,
      last_triggered     : {None} \cup {Num(t) : t \in AlertTimes} ]

InitAlert ==
    /\ engine = DSLEngine
    /\ context \in Alerts
    /\ now \in AlertTimes
    /\ ret = [op |-> "none"]
    /\ expr = Lit(1) /\ evalOut = NoEval /\ epc = "ready"
    /\ config = NoConfig /\ created = "none" /\ trig = NoTrigger /\ twin = NoTrigger
    /\ trace = <<>>
    /\ triggers = <<>> /\ trigger_history = <<>> /\ fired_log = <<>>
    /\ threads = NoThreads

\* alert.is_valid() while datetime.utcnow() is `now`
IsValid ==
    /\ ret.op = "none"
    /\ ret' = [op |-> "is_valid", out |-> is_valid(context, now)]
    /\ UNCHANGED <<engine, expr, context, evalOut, epc, config, created, trig, twin, trace,
                   triggers, trigger_history, fired_log, threads, now>>

NextAlert == IsValid

SpecAlert == InitAlert /\ [][NextAlert]_vars

-----------------------------------------------------------------------------
(* Specification SpecFrame: check, check_triggers and parse_dsl are called   *)
(* with a snapshot that is looked at again when the call is over            *)

MaxFrameCalls == 3    \* calls of check and check_triggers made

FrameConfigs ==
    { Cfg("price_above", [threshold |-> Num(10)]),
      Cfg("custom_dsl", [dsl_expression |-> "sma_20 > 10"]),
      Cfg("custom_dsl", [dsl_expression |-> "price >"]),
      Cfg("composite_trigger",
          [operator |-> "AND",
           triggers |-> << Cfg("custom_dsl", [dsl_expression |-> "sma_20 > 10"]),
                           Cfg("price_above", [threshold |-> Num(10)]) >>]) }

FrameSnapshots ==
    { [price |-> Num(12), prices |-> List(<<Num(11), Num(12)>>)],
      [price |-> Num(12), prices |-> List(<<>>)],
      [price |-> Num(12), prices |-> Num(12)],
      [price |-> Num(3), sma_20 |-> Num(11)],
      [price |-> Num(12), prices |-> List(<<Num(11), Num(12)>>), sma_20 |-> Num(5)] }

InitFrame ==
    /\ engine = DSLEngine
    /\ config \in FrameConfigs
    /\ trig = create_trigger(config).t
    /\ created = "ok" /\ twin = NoTrigger /\ trace = <<>>
    /\ threads = NoThreads
    /\ expr = Lit(1) /\ context = [price |-> Num(2)] /\ evalOut = NoEval /\ epc = "ready"
    /\ triggers = <<>> /\ trigger_history = <<>> /\ ret = [op |-> "none"]
    /\ fired_log = <<>>
    /\ now = 0

\* manager.add_trigger(id, config), before any call that is handed a snapshot
FrameAdd ==
    /\ trace = <<>> /\ ret.op \in {"none", "add_trigger"}
    /\ \E id \in TriggerIds \ Ids(triggers) :
          /\ triggers' = add_trigger(triggers, id, create_trigger(config).t)
          /\ ret' = [op |-> "add_trigger"]
    /\ UNCHANGED <<engine, trigger_history, fired_log, now, evalVars, trigVars, threads>>

\* the state after trig.check(md) did r
FrameChecked(r, md) ==
    /\ trig' = r.t
    /\ ret' = [op |-> "check", out |-> r.out, before |-> md,
               after |-> check_market_data(trig, md)]

\* trig.check(market_data), then the caller looks at market_data
FrameCheck ==
    /\ triggers = <<>>
    /\ Len(trace) < MaxFrameCalls
    /\ trace' = Append(trace, [op |-> "check"])
    /\ \E md \in FrameSnapshots :
          \E r \in {check(trig, md, now)} : FrameChecked(r, md)
    /\ UNCHANGED <<engine, config, created, twin, triggers, trigger_history, fired_log,
                   now, evalVars, threads>>

\* the state after check_triggers(md) did r
FrameChecking(r, md) ==
    /\ triggers' = r.reg
    /\ trigger_history' = r.history
    /\ fired_log' = fired_log \o r.triggered
    /\ ret' = [op |-> "check_triggers", out |-> IF r.raised THEN "raise" ELSE "list",
               before |-> md,
               after |-> check_triggers_market_data(triggers, Len(r.log), md)]
    /\ trace' = Append(trace, [op |-> "check_triggers"])
    /\ UNCHANGED <<engine, config, created, trig, twin, now, evalVars, threads>>

\* manager.check_triggers(market_data), then the caller looks at market_data
FrameCheckTriggers ==
    /\ triggers # <<>>
    /\ Len(trace) < MaxFrameCalls
    /\ \E md \in FrameSnapshots :
          \E r \in {check_triggers(triggers, trigger_history, md, now)} :
             FrameChecking(r, md)

\* engine.parse_dsl(text, market_data), then the caller looks at market_data
FrameParse ==
    /\ triggers = <<>> /\ trace = <<>>
    /\ \E text \in DslTexts, md \in FrameSnapshots :
          LET r == parse_dsl(text, md) IN
          ret' = [op |-> "parse_dsl", text |-> text,
                  out |-> IF r.ok THEN "bool" ELSE "raise", value |-> r.val,
                  before |-> md, after |-> parse_dsl_market_data(md)]
    /\ UNCHANGED <<engine, triggers, trigger_history, fired_log, now, evalVars, trigVars, threads>>

NextFrame == FrameAdd \/ FrameCheck \/ FrameCheckTriggers \/ FrameParse

SpecFrame == InitFrame /\ [][NextFrame]_vars

-----------------------------------------------------------------------------
(* Properties of DSLEngine.evaluate (checked under SpecEval) *)

\* the node classes evaluate has a branch for
AllowListKinds ==
    {"Constant", "Name", "List", "Tuple", "Dict", "BinOp", "UnaryOp", "Compare",
     "BoolOp", "Call", "IfExp", "Subscript"}

\* a node outside the allow-list: another node class, or a call whose callee
\* is not the plain name of a registered function
OutsideAllowList(node) ==
    \/ node[1] \notin AllowListKinds
    \/ /\ node[1] = "Call"
       /\ \/ node[2][1] # "Name"
          \/ node[2][2] \notin FunctionNames

\* C1: whenever evaluation reaches a node outside the allow-list (attribute
\* access, a lambda, a call whose callee is not a plain registered name),
\* evaluate fails and no function was invoked for that node.
C1_OutsideAllowListFails ==
    epc = "done" =>
        \A i \in 1..Len(evalOut.visited) :
            OutsideAllowList(evalOut.visited[i]) =>
                /\ ~evalOut.ok
                /\ \A j \in 1..Len(evalOut.calls) :
                        evalOut.calls[j][2] # evalOut.visited[i]

\* C1 witness: a registered function was invoked for an earlier operand, then
\* evaluation reached os.abs(1) and failed without invoking anything for it.
C1_Witness ==
    /\ epc = "done"
    /\ expr = <<"BinOp", "Add", AbsCall, MethodCall>>
    /\ ~evalOut.ok
    /\ evalOut.visited[Len(evalOut.visited)] = MethodCall
    /\ evalOut.calls = << <<"abs", AbsCall>> >>

\* C10 (as claimed): a chained comparison a op1 b op2 c short-circuits: when
\* the first pair fails, c is not evaluated and the result is false, whatever
\* evaluating c would do.
C10_ChainShortCircuits ==
    (epc = "done" /\ expr \in CompareExprs) =>
        LET a  == evaluate(expr[2], context)
            b  == evaluate(expr[4][1], context)
            p1 == ApplyCompare(expr[3][1], a.val, b.val)
        IN  (a.ok /\ b.ok /\ p1.ok /\ ~p1.val[2]) =>
                /\ evalOut.ok
                /\ evalOut.val = Bool(FALSE)
                /\ evalOut.visited = <<expr>> \o a.visited \o b.visited

\* What the code does instead (holds): every operand of the chain is
\* evaluated, so the chain fails as soon as any operand fails; a failed first
\* pair does not keep the last operand from being evaluated; when all
\* operands evaluate, the result is the conjunction of the pairs made.
ChainEvaluatesEveryOperand ==
    (epc = "done" /\ expr \in CompareExprs) =>
        LET a  == evaluate(expr[2], context)
            b  == evaluate(expr[4][1], context)
            c  == evaluate(expr[4][2], context)
            p1 == ApplyCompare(expr[3][1], a.val, b.val)
            p2 == ApplyCompare(expr[3][2], b.val, c.val)
        IN  /\ (~a.ok \/ ~b.ok \/ ~c.ok) => ~evalOut.ok
            /\ (a.ok /\ b.ok /\ c.ok /\ p1.ok) =>
                    /\ evalOut.visited = <<expr>> \o a.visited \o b.visited \o c.visited
                    /\ ~p1.val[2] => (evalOut.ok /\ evalOut.val = Bool(FALSE))
                    /\ (p1.val[2] /\ p2.ok) => (evalOut.ok /\ evalOut.val = p2.val)

\* C11: and / or evaluate their operands left to right and stop at the first
\* falsy (and) or truthy (or) operand: the operand after the stopping point is
\* not evaluated, so neither its failure nor its function calls happen; when
\* the first operand does not decide, the second one is evaluated.
C11_BoolOpShortCircuits ==
    (epc = "done" /\ expr \in BoolOpExprs) =>
        LET a     == evaluate(expr[3][1], context)
            b     == evaluate(expr[3][2], context)
            stops == a.ok /\ (Truthy(a.val) <=> expr[2] = "Or")
        IN  /\ ~a.ok => (~evalOut.ok /\ evalOut.visited = <<expr>> \o a.visited)
            /\ stops =>
                  /\ evalOut.ok /\ evalOut.val = Bool(expr[2] = "Or")
                  /\ evalOut.visited = <<expr>> \o a.visited
                  /\ evalOut.calls = a.calls
            /\ (a.ok /\ ~stops) =>
                  /\ evalOut.visited = <<expr>> \o a.visited \o b.visited
                  /\ evalOut.ok = b.ok
                  /\ b.ok => evalOut.val = Bool(Truthy(b.val))

\* C11 witness: `unbound and foo()` is false although foo() would fail
C11_Witness ==
    /\ epc = "done"
    /\ expr = <<"BoolOp", "And", <<NameNode("unbound"), UnknownCall>> >>
    /\ evalOut.ok /\ evalOut.val = Bool(FALSE)
    /\ evalOut.visited = <<expr, NameNode("unbound")>>

\* C12: an identifier that is neither a keyword nor a key of the context
\* evaluates to the number 0 without an error, alone and as an operand.
C12_UnboundIdentifierIsZero ==
    epc = "done" =>
        /\ (expr[1] = "Name" /\ expr[2] \notin KeywordNames /\ ~Has(context, expr[2])) =>
              (evalOut.ok /\ evalOut.val = Num(0))
        /\ \A n \in 1..MaxLit :
              (expr = <<"BinOp", "Add", NameNode("unbound"), Lit(n)>>
                  /\ ~Has(context, "unbound")) =>
                  (evalOut.ok /\ evalOut.val = Num(n))

\* C12 witness: the identifier `unbound` was evaluated on a context without it
C12_Witness ==
    /\ epc = "done"
    /\ expr = NameNode("unbound") /\ ~Has(context, "unbound")
    /\ evalOut.ok /\ evalOut.val = Num(0)

\* two contexts that differ at most in what they bind to the keyword names
SameButKeywords(c1, c2) ==
    /\ DOMAIN c1 \ KeywordNames = DOMAIN c2 \ KeywordNames
    /\ \A k \in DOMAIN c1 \ KeywordNames : c1[k] = c2[k]

\* C13: the outcome of evaluating an expression (result or failure, the nodes
\* evaluated and the calls made) is the same on every context that differs
\* from the given one only in what it binds to true, false, null, pi, e.
C13_KeywordsNotShadowed ==
    epc = "done" =>
        \A c2 \in Contexts :
            SameButKeywords(context, c2) => evaluate(expr, c2) = evalOut

\* C13 witness: `true or price` evaluated on a context that binds true to False
C13_Witness ==
    /\ epc = "done"
    /\ expr = <<"BoolOp", "Or", <<NameNode("true"), NameNode("price")>> >>
    /\ Has(context, "true") /\ context["true"] = Bool(FALSE)
    /\ evalOut.ok /\ evalOut.val = Bool(TRUE)
    /\ evalOut.visited = <<expr, NameNode("true")>>

\* the nodes evaluate recurses into from a node of an allow-listed kind
Children(node) ==
    CASE node[1] \in {"Constant", "Name"}      -> <<>>
      [] node[1] \in {"List", "Tuple"}         -> node[2]
      [] node[1] \in {"BoolOp", "Call"}        -> node[3]
      [] node[1] = "Dict"                      -> node[2] \o node[3]
      [] node[1] = "BinOp"                     -> <<node[3], node[4]>>
      [] node[1] = "UnaryOp"                   -> <<node[3]>>
      [] node[1] = "Compare"                   -> <<node[2]>> \o node[4]
      [] node[1] = "IfExp"                     -> <<node[2], node[3], node[4]>>
      [] node[1] = "Subscript"                 -> <<node[2], node[3]>>

\* an expression built only from allow-listed node kinds
RECURSIVE OnlyAllowListed(_)
OnlyAllowListed(node) ==
    /\ ~OutsideAllowList(node)
    /\ \A i \in 1..Len(Children(node)) : OnlyAllowListed(Children(node)[i])

\* the number of nodes of an expression built only from allow-listed kinds
RECURSIVE NodeCount(_), NodeCountAll(_)
NodeCountAll(nodes) ==
    IF nodes = <<>> THEN 0 ELSE NodeCount(Head(nodes)) + NodeCountAll(Tail(nodes))
NodeCount(node) == 1 + NodeCountAll(Children(node))

\* a value of the type {Number, String, Bool, Null, List, Tuple, Map},
\* extended by the tags in extra
RECURSIVE IsValue(_, _)
IsValue(v, extra) ==
    CASE Tag(v) \in {"num", "float", "str", "bool", "none"} -> TRUE
      [] Tag(v) \in {"list", "tuple"} -> \A i \in 1..Len(v[2]) : IsValue(v[2][i], extra)
      [] Tag(v) = "dict" ->
            \A i \in 1..Len(v[2]) : IsValue(v[2][i][1], extra) /\ IsValue(v[2][i][2], extra)
      [] OTHER -> Tag(v) \in extra

-----------------------------------------------------------------------------
(* Properties of the trigger classes and the factory (checked under        *)
(* SpecTrigger)                                                             *)

Ticks == 1..Len(trace)
FiredAt(i) == trace[i].out = "true"
NumField(md, key, default) == AsInt(Get(md, key, Num(default)))

\* the MACD line crossed the signal line between two consecutive snapshots
Crossed(crossover_type, before, after) ==
    LET pm == NumField(before, "macd", 0)
        ps == NumField(before, "macd_signal", 0)
        cm == NumField(after, "macd", 0)
        cs == NumField(after, "macd_signal", 0)
    IN  IF crossover_type = "bullish" THEN pm <= ps /\ cm > cs
        ELSE pm >= ps /\ cm < cs

\* C4: a MACDCrossover trigger never fires on its first check; on every later
\* check a 'bullish' trigger fires iff the previous tick had macd <= signal and
\* this tick has macd > signal (symmetrically for 'bearish').
C4_MACDCrossoverEdge ==
    (created = "ok" /\ trig.cls = "MACDCrossTrigger"
        /\ trig.params.crossover_type \in {"bullish", "bearish"}) =>
        \A i \in Ticks :
            IF i = 1 THEN ~FiredAt(i)
            ELSE FiredAt(i) <=> Crossed(trig.params.crossover_type,
                                        trace[i - 1].md, trace[i].md)

\* C4 witness: (macd=1, signal=2) then (macd=3, signal=2) on a bullish
\* trigger: no fire on the first check, one fire on the second.
C4_Witness ==
    /\ created = "ok" /\ trig.cls = "MACDCrossTrigger"
    /\ trig.params.crossover_type = "bullish"
    /\ Len(trace) = 2
    /\ NumField(trace[1].md, "macd", 0) = 1 /\ NumField(trace[1].md, "macd_signal", 0) = 2
    /\ NumField(trace[2].md, "macd", 0) = 3 /\ NumField(trace[2].md, "macd_signal", 0) = 2
    /\ ~FiredAt(1) /\ FiredAt(2)
    /\ trig.trigger_count = 1

\* the price of a snapshot is beyond the configured band edge (a missing band
\* is price * 1.1 / price * 0.9)
Qualifies(direction, md) ==
    LET price == NumField(md, "price", 0) IN
    IF direction = "upper"
    THEN (IF Has(md, "bb_upper") THEN price > AsInt(md.bb_upper) ELSE price < 0)
    ELSE (IF Has(md, "bb_lower") THEN price < AsInt(md.bb_lower) ELSE price < 0)

\* the number of consecutive qualifying ticks up to tick i, counted since the
\* latest of creation, the last non-qualifying tick and the last fire
RECURSIVE Streak(_, _)
Streak(direction, i) ==
    IF i = 0 THEN 0
    ELSE IF ~Qualifies(direction, trace[i].md) THEN 0
    ELSE IF i > 1 /\ FiredAt(i - 1) THEN 1
    ELSE Streak(direction, i - 1) + 1

\* C5: a BollingerBreakout trigger with confirmation_period k >= 1 fires
\* exactly on the k-th consecutive qualifying tick; a fire and a
\* non-qualifying tick reset confirmation_count to 0; after every check
\* 0 <= confirmation_count < k.
C5_BollingerConfirmation ==
    (created = "ok" /\ trig.cls = "BollingerBreakoutTrigger"
        /\ trig.params.direction \in {"upper", "lower"}
        /\ AsInt(trig.params.confirmation_period) >= 1) =>
        LET k == AsInt(trig.params.confirmation_period)
            d == trig.params.direction
            n == Len(trace)
        IN  /\ \A i \in Ticks : FiredAt(i) <=> Streak(d, i) = k
            /\ trig.confirmation_count >= 0 /\ trig.confirmation_count < k
            /\ n > 0 =>
                /\ FiredAt(n) => trig.confirmation_count = 0
                /\ ~Qualifies(d, trace[n].md) =>
                        (~FiredAt(n) /\ trig.confirmation_count = 0)
                /\ (~FiredAt(n) /\ Qualifies(d, trace[n].md)) =>
                        trig.confirmation_count = Streak(d, n)

\* C5 witness: confirmation_period 2, two qualifying ticks fire on the second
\* and reset the counter, and a third qualifying tick counts from 1 again.
C5_Witness ==
    /\ created = "ok" /\ trig.cls = "BollingerBreakoutTrigger"
    /\ AsInt(trig.params.confirmation_period) = 2
    /\ Len(trace) = 3
    /\ \A i \in Ticks : Qualifies(trig.params.direction, trace[i].md)
    /\ ~FiredAt(1) /\ FiredAt(2) /\ ~FiredAt(3)
    /\ trig.confirmation_count = 1

\* C6 (as claimed): every check of a composite checks every child once, in
\* list order, whatever the earlier children returned or did, and returns
\* AND = all, OR = any, NAND = not all, NOR = not any of the children's results.
C6_CompositeChecksEveryChild ==
    (created = "ok" /\ trig.cls = "CompositeTrigger"
        /\ trig.params.operator \in {"AND", "OR", "NAND", "NOR"}) =>
        \A i \in Ticks :
            /\ Len(trace[i].kids) = Len(trig.sub_triggers)
            /\ FiredAt(i) <=>
                LET all == \A c \in 1..Len(trace[i].kids) : trace[i].kids[c] = "true"
                    any == \E c \in 1..Len(trace[i].kids) : trace[i].kids[c] = "true"
                IN  CASE trig.params.operator = "AND"  -> all
                      [] trig.params.operator = "OR"   -> any
                      [] trig.params.operator = "NAND" -> ~all
                      [] trig.params.operator = "NOR"  -> ~any

\* What the code does (holds): the children are checked in list order up to
\* and including the first one whose check raises; the composite check then
\* raises itself and the later children are not checked.  When no child
\* raises, every child is checked and the result is the combination.
CompositeStopsAtRaisingChild ==
    (created = "ok" /\ trig.cls = "CompositeTrigger"
        /\ trig.params.operator \in {"AND", "OR", "NAND", "NOR"}) =>
        \A i \in Ticks :
            LET kids == trace[i].kids
                all  == \A c \in 1..Len(kids) : kids[c] = "true"
                any  == \E c \in 1..Len(kids) : kids[c] = "true"
            IN  /\ \A c \in 1..(Len(kids) - 1) : kids[c] # "raise"
                /\ IF Len(kids) > 0 /\ kids[Len(kids)] = "raise"
                   THEN trace[i].out = "raise"
                   ELSE /\ Len(kids) = Len(trig.sub_triggers)
                        /\ FiredAt(i) <=>
                            CASE trig.params.operator = "AND"  -> all
                              [] trig.params.operator = "OR"   -> any
                              [] trig.params.operator = "NAND" -> ~all
                              [] trig.params.operator = "NOR"  -> ~any

\* C7 (as claimed): a trigger built from {type: 'price_below', params:
\* {threshold: T}} fires on a check iff the snapshot price is below T.
C7_PriceBelowFiresBelow ==
    (created = "ok" /\ Has(config, "type") /\ config.type = "price_below"
        /\ IsNumeric(config.params.threshold)) =>
        \A i \in Ticks :
            FiredAt(i) <=> NumField(trace[i].md, "price", 0) < AsInt(config.params.threshold)

\* C8 (as claimed): create_trigger fails whenever the type is unrecognized or
\* a parameter the trigger type requires is absent from params.
C8_FactoryRejectsMissingParams ==
    (created # "none"
        /\ \/ ~Has(config, "type")
           \/ config.type \notin TriggerTypeValues
           \/ \E p \in RequiredParams(config.type) :
                ~Has(Get(config, "params", EmptyMap), p)) =>
        created # "ok"

\* C9: the trigger rebuilt by the factory from t.to_dict() is built
\* successfully and, started from its initial state, returns on every
\* snapshot sequence what a fresh t returns (for a composite: child by child).
C9_RoundTrip ==
    created = "ok" =>
        /\ twin.cls = trig.cls
        /\ \A i \in Ticks :
            /\ trace[i].twinOut = trace[i].out
            /\ trace[i].twinKids = trace[i].kids

\* C9 witness: a nested composite and its rebuilt twin have both fired and
\* both not fired.
C9_Witness ==
    /\ created = "ok" /\ trig.cls = "CompositeTrigger"
    /\ \E c \in 1..Len(trig.sub_triggers) : trig.sub_triggers[c].cls = "CompositeTrigger"
    /\ twin.cls = "CompositeTrigger"
    /\ \E i \in Ticks : trace[i].out = "true" /\ trace[i].twinOut = "true"
    /\ \E i \in Ticks : trace[i].out = "false" /\ trace[i].twinOut = "false"

\* C24: a PriceAbove trigger is level-triggered and stateless: every check
\* fires iff the price of that check's snapshot is above the threshold,
\* whatever the earlier checks and resets were, so it fires again on every
\* consecutive tick on which the price stays above the threshold.
C24_PriceAboveLevelTriggered ==
    (created = "ok" /\ trig.cls = "PriceAboveTrigger"
        /\ IsNumeric(trig.params.threshold)) =>
        \A i \in Ticks :
            FiredAt(i) <=> NumField(trace[i].md, "price", 0) > AsInt(trig.params.threshold)

\* C24 witness: threshold 10 and three checks without a reset: price 12
\* fires, price 12 fires again on the next tick, price 3 does not.
C24_Witness ==
    /\ created = "ok" /\ trig.cls = "PriceAboveTrigger"
    /\ trig.params.threshold = Num(10)
    /\ Len(trace) = 3
    /\ NumField(trace[1].md, "price", 0) = 12 /\ FiredAt(1)
    /\ NumField(trace[2].md, "price", 0) = 12 /\ FiredAt(2)
    /\ NumField(trace[3].md, "price", 0) = 3 /\ ~FiredAt(3)
    /\ trig.trigger_count = 2 /\ trig.last_triggered # None

\* the last n values of a volume history of at least n values
Trailing(history, n) == [k \in 1..n |-> history[Len(history) - n + k]]

\* volume (>, >=) multiplier * mean(window), with the division multiplied out
VolumeAbove(md, window, multiplier) ==
    NumField(md, "volume", 0) * Len(window) > SumSeq(window) * multiplier
VolumeAtLeast(md, window, multiplier) ==
    NumField(md, "volume", 0) * Len(window) >= SumSeq(window) * multiplier

VolumeHistory(md) == Get(md, "volume_history", List(<<>>))[2]

VolumeSpikeCase ==
    /\ created = "ok" /\ trig.cls = "VolumeSpikeTrigger"
    /\ IsNumeric(trig.params.multiplier) /\ IsNumeric(trig.params.lookback_period)
    /\ AsInt(trig.params.lookback_period) >= 1

\* C25 (as claimed): a VolumeSpike check returns false when the volume
\* window is shorter than lookback_period, and otherwise fires iff the current
\* volume is at least multiplier * mean of the last lookback_period values.
C25_VolumeSpikeAtLeast ==
    VolumeSpikeCase =>
        \A i \in Ticks :
            LET h == VolumeHistory(trace[i].md)
                n == AsInt(trig.params.lookback_period)
            IN  IF Len(h) < n THEN ~FiredAt(i)
                ELSE FiredAt(i) <=> VolumeAtLeast(trace[i].md, Trailing(h, n),
                                                  AsInt(trig.params.multiplier))

\* C25 (amended): a VolumeSpike check returns false when the volume window is
\* shorter than lookback_period, and otherwise fires iff the current volume is
\* strictly greater than multiplier * mean of the last lookback_period values;
\* a volume equal to multiplier * mean does not fire.
C25_VolumeSpikeStrictlyAbove ==
    VolumeSpikeCase =>
        \A i \in Ticks :
            LET h == VolumeHistory(trace[i].md)
                n == AsInt(trig.params.lookback_period)
            IN  IF Len(h) < n THEN ~FiredAt(i)
                ELSE FiredAt(i) <=> VolumeAbove(trace[i].md, Trailing(h, n),
                                                AsInt(trig.params.multiplier))

\* C25 witness: multiplier 2, lookback 2: volume 2 on history [1, 1] equals
\* the threshold and does not fire; volume 3 on history [9, 1, 1] is above
\* twice the mean of the last two values and fires; a snapshot without a
\* history does not fire.
C25_Witness ==
    /\ VolumeSpikeCase
    /\ AsInt(trig.params.multiplier) = 2 /\ AsInt(trig.params.lookback_period) = 2
    /\ Len(trace) = 3
    /\ NumField(trace[1].md, "volume", 0) = 2 /\ Len(VolumeHistory(trace[1].md)) = 2
    /\ ~FiredAt(1)
    /\ NumField(trace[2].md, "volume", 0) = 3 /\ Len(VolumeHistory(trace[2].md)) = 3
    /\ FiredAt(2)
    /\ Len(VolumeHistory(trace[3].md)) = 0 /\ ~FiredAt(3)

\* a step of reset() that changed the trigger
ResetStep == created = "ok" /\ created' = "ok" /\ trace' = trace /\ trig' # trig

\* C28 (as claimed): reset() puts the trigger into the state of a freshly
\* created trigger with the same params: the next check after a reset
\* returns, on every snapshot, what the first check of a new instance returns
\* (a MACDCrossover only seeds, a BollingerBreakout counts from 0).
C28_ResetRestoresFreshTrigger ==
    [][ResetStep =>
        \A md \in Snapshots :
            check(trig', md, now).out = check(create_trigger(config).t, md, now).out]_vars

\* the number of checks so far that returned true (child = 0: of the trigger
\* itself; child = c: of the c-th child of a composite)
TrueChecks(child) ==
    Cardinality({ i \in Ticks :
                    IF child = 0 THEN trace[i].out = "true"
                    ELSE Len(trace[i].kids) >= child /\ trace[i].kids[child] = "true" })

\* C29: in every state reached by check and reset calls, trigger_count of a
\* trigger (and of each child of a composite) is the number of its checks
\* that returned true; a check that returns true adds exactly 1 and sets
\* last_triggered, a check that returns false changes neither, and reset
\* leaves trigger_count alone.
C29_TriggerCountCountsTrueChecks ==
    /\ [](created = "ok" =>
            /\ trig.trigger_count = TrueChecks(0)
            /\ \A c \in 1..Len(trig.sub_triggers) :
                    trig.sub_triggers[c].trigger_count = TrueChecks(c))
    /\ [][/\ (created = "ok" /\ Len(trace') = Len(trace) + 1) =>
               LET out == trace'[Len(trace')].out IN
               /\ out = "true" => /\ trig'.trigger_count = trig.trigger_count + 1
                                  /\ trig'.last_triggered = Num(now)
               /\ out = "false" => /\ trig'.trigger_count = trig.trigger_count
                                   /\ trig'.last_triggered = trig.last_triggered
          /\ (created = "ok" /\ created' = "ok" /\ trace' = trace) =>
               /\ trig'.trigger_count = trig.trigger_count
               /\ trig'.trigger_count >= 0]_vars

\* C29 witness: a BollingerBreakout with confirmation_period 2 was checked
\* three times beyond the band and reset after it fired: it returned false,
\* true, false, its trigger_count is 1 and last_triggered is cleared.
C29_Witness ==
    /\ created = "ok" /\ trig.cls = "BollingerBreakoutTrigger"
    /\ Len(trace) = 3
    /\ ~FiredAt(1) /\ FiredAt(2) /\ ~FiredAt(3)
    /\ trig.confirmation_count = 1
    /\ trig.trigger_count = 1 /\ trig.last_triggered = None

\* the expression of a CustomDSL trigger evaluated against a snapshot
DslValue(md) == evaluate(Parse(trig.params.dsl_expression).tree, md)
DslFails(md) == ~Parse(trig.params.dsl_expression).ok \/ ~DslValue(md).ok

\* C30: a CustomDSL trigger's check never raises: when parsing or evaluating
\* the expression against the snapshot fails it returns false and leaves
\* trigger_count and last_triggered as they were; otherwise it returns the
\* truth value of the expression's value.
C30_CustomDSLCheckNeverRaises ==
    /\ []((created = "ok" /\ trig.cls = "CustomDSLTrigger") =>
            \A i \in Ticks :
                /\ trace[i].out \in {"true", "false"}
                /\ FiredAt(i) <=> (~DslFails(trace[i].md) /\ Truthy(DslValue(trace[i].md).val)))
    /\ [][(created = "ok" /\ trig.cls = "CustomDSLTrigger"
            /\ Len(trace') = Len(trace) + 1 /\ DslFails(trace'[Len(trace')].md)) =>
            /\ trig'.trigger_count = trig.trigger_count
            /\ trig'.last_triggered = trig.last_triggered]_vars

\* C30 witness: 'len(volume_history) > 1' fired on a snapshot with a history
\* and was then checked on one without: len(0) fails inside the evaluator,
\* the check returned false and the count and timestamp of the first check
\* are still there.
C30_Witness ==
    /\ created = "ok" /\ trig.cls = "CustomDSLTrigger"
    /\ trig.params.dsl_expression = "len(volume_history) > 1"
    /\ Len(trace) = 2
    /\ FiredAt(1)
    /\ ~Has(trace[2].md, "volume_history") /\ DslFails(trace[2].md)
    /\ trace[2].out = "false"
    /\ trig.trigger_count = 1 /\ trig.last_triggered = Num(0)

\* C32 (as claimed): every type get_supported_trigger_types lists can be
\* registered: building a trigger of a listed type from params that carry
\* the parameters its schema requires does not fail with the factory's
\* unknown-trigger-type error (ValueError).
C32_SupportedTypesCanBeRegistered ==
    (created # "none" /\ Has(config, "type") /\ Has(config, "params")
        /\ config.type \in get_supported_trigger_types
        /\ \A p \in RequiredParams(config.type) : Has(config.params, p)) =>
        created # "ValueError"

\* C33: a MACDCrossover trigger never fires on two consecutive checks: the
\* check that follows a check that returned true returns false, whatever its
\* snapshot.
C33_MACDNeverFiresTwiceInARow ==
    (created = "ok" /\ trig.cls = "MACDCrossTrigger") =>
        \A i \in Ticks : (i > 1 /\ FiredAt(i - 1)) => trace[i].out = "false"

\* C33 witness: a bullish trigger fired on (macd 3, signal 2) and was then
\* checked on the same snapshot, macd still above the signal: it returned
\* false.
C33_Witness ==
    /\ created = "ok" /\ trig.cls = "MACDCrossTrigger"
    /\ trig.params.crossover_type = "bullish"
    /\ Len(trace) = 3
    /\ FiredAt(2) /\ trace[3].out = "false"
    /\ trace[3].md = trace[2].md
    /\ NumField(trace[3].md, "macd", 0) > NumField(trace[3].md, "macd_signal", 0)

\* C34 (as claimed): for every confirmation_period the factory accepts, 0
\* and negative values included, a BollingerBreakout check returns true only
\* on a tick whose price is beyond the configured band edge.
C34_BollingerFiresOnlyBeyondBand ==
    (created = "ok" /\ trig.cls = "BollingerBreakoutTrigger"
        /\ IsNumeric(trig.params.confirmation_period)) =>
        \A i \in Ticks : FiredAt(i) => BeyondBand(trig.params.direction, trace[i].md)

-----------------------------------------------------------------------------
(* Properties of concurrent checks on one instance (checked under SpecRace) *)

\* no caller is inside check
Settled == \A i \in Callers : ~Inside(threads.callers[i])
AllDone == \A i \in Callers : threads.callers[i].pc = "done"

\* the results of the callers and the instance they leave are those of the
\* whole checks made one after the other in the order ord
MatchesSerial(ord) ==
    LET first == threads.callers[ord[1]]
        r1    == check(threads.base, first.md, now)
    IN  /\ first.out = r1.out
        /\ IF Len(ord) = 1 THEN trig = r1.t
           ELSE LET second == threads.callers[ord[2]]
                    r2     == check(r1.t, second.md, now)
                IN  second.out = r2.out /\ trig = r2.t

\* C18: when the checks on one MACDCrossTrigger or BollingerBreakoutTrigger
\* instance are serialized (no caller enters while another is inside), each
\* check sees the state the previous one left: the results returned and the
\* stored edge state are those of the whole checks run one after the other in
\* the order the callers entered.  (That unsynchronized interleavings reach a
\* state matching no serial order is what C18_Witness establishes.)
C18_SerializedChecksCompose ==
    (Settled /\ ~threads.overlap /\ threads.order # <<>>) => MatchesSerial(threads.order)

\* two interleaved checks have returned, and what they returned and stored
\* matches neither serial order; in particular both reported the crossover
\* (or the breakout) that one serial check would have consumed
C18_Witness ==
    /\ AllDone /\ threads.overlap
    /\ ~MatchesSerial(<<1, 2>>) /\ ~MatchesSerial(<<2, 1>>)
    /\ threads.callers[1].out = "true" /\ threads.callers[2].out = "true"

\* two interleaved MACD checks of different snapshots leave prev_macd from one
\* snapshot and prev_signal from the other
C18_TornEdgeState ==
    /\ AllDone /\ threads.overlap /\ trig.cls = "MACDCrossTrigger"
    /\ \E i, j \in Callers :
          /\ i # j
          /\ threads.callers[i].md # threads.callers[j].md
          /\ trig.prev_macd = threads.callers[i].current_macd
          /\ trig.prev_signal = threads.callers[j].current_signal
          /\ trig.prev_signal # threads.callers[i].current_signal

-----------------------------------------------------------------------------
(* Properties of TimeBasedTrigger (checked under SpecSchedule) *)

\* the time condition of the trigger t matches the time clock
TimeConditionMatches(t, clock) ==
    LET value == t.params.value IN
    CASE t.params.condition = "day_of_week" -> Weekday(clock) = AsInt(value)
      [] t.params.condition = "specific_time" ->
            Hour(clock) = value[2] /\ Minute(clock) = value[3]
      [] t.params.condition = "time_window" ->
            LET m == Hour(clock) * 60 + Minute(clock) IN
            /\ value[2][1][2] * 60 + value[2][1][3] <= m
            /\ m <= value[2][2][2] * 60 + value[2][2][3]

\* the checks i < j both returned true and no reset came between them
FiresWithoutReset(i, j) ==
    /\ i < j
    /\ trace[i].op = "check" /\ trace[i].out = "true"
    /\ trace[j].op = "check" /\ trace[j].out = "true"
    /\ \A k \in i..j : trace[k].op # "reset"

\* the step is a check at a time that matches the condition and lies within
\* the cooldown since the last firing
CheckInsideCooldown ==
    /\ Len(trace') = Len(trace) + 1
    /\ trace'[Len(trace')].op = "check"
    /\ TimeConditionMatches(trig, now)
    /\ ~IsNone(trig.last_triggered)
    /\ now - AsInt(trig.last_triggered) <= CooldownSeconds

\* C19: between two checks of a ScheduledTime trigger that return true with
\* no reset in between, at least the 300 seconds of the cooldown have passed
\* on the wall clock; a check whose time condition matches but which falls
\* inside the cooldown since the last firing returns false and leaves
\* last_triggered and trigger_count as they were.
C19_CooldownBetweenFires ==
    /\ [](\A i, j \in 1..Len(trace) :
            FiresWithoutReset(i, j) => trace[j].at - trace[i].at >= CooldownSeconds)
    /\ [][CheckInsideCooldown =>
            /\ trace'[Len(trace')].out = "false"
            /\ trig'.last_triggered = trig.last_triggered
            /\ trig'.trigger_count = trig.trigger_count]_vars

\* the trigger fired, a check inside the cooldown at a matching time returned
\* false, and a later check past the cooldown fired again
C19_Witness ==
    \E i, j, k \in 1..Len(trace) :
        /\ i < j /\ j < k
        /\ FiresWithoutReset(i, k)
        /\ trace[j].op = "check" /\ trace[j].out = "false"
        /\ TimeConditionMatches(trig, trace[j].at)
        /\ trace[j].at - trace[i].at <= CooldownSeconds
        /\ trace[j].at >= trace[i].at
        /\ trig.trigger_count = 2

-----------------------------------------------------------------------------
(* Properties of the engine as an object (checked under SpecEngine) *)

TimeFunctions == {"now", "timestamp", "days_ago"}

\* the expression calls a time function
RECURSIVE CallsTimeFunction(_)
CallsTimeFunction(node) ==
    \/ node[1] = "Call" /\ node[2][1] = "Name" /\ node[2][2] \in TimeFunctions
    \/ /\ node[1] \in AllowListKinds
       /\ \E i \in 1..Len(Children(node)) : CallsTimeFunction(Children(node)[i])

\* the calls i and j were given the same expression and equal contexts
SameCall(i, j) ==
    /\ trace[i].op = trace[j].op
    /\ trace[i].src = trace[j].src /\ trace[i].tree = trace[j].tree
    /\ trace[i].context = trace[j].context

CalledNames(text) ==
    CASE text = "foo(price)"             -> {"foo"}
      [] text = "abs(price) > foo(true)" -> {"abs", "foo"}
      [] OTHER                           -> {}
WellFormed(text) == text # "price >"

\* C22: validate_dsl returns a record for every text and never raises; it
\* evaluates nothing, calls no registered function and changes no field of
\* the engine.  On malformed text the record has valid = false, empty
\* variables, functions and unknown_functions and an error; on well-formed
\* text unknown_functions is exactly the called function names that are not
\* in the function registry.
C22_ValidateIsStaticAndTotal ==
    /\ [](\A i \in 1..Len(trace) :
            trace[i].op = "validate_dsl" =>
                LET v == trace[i].val IN
                /\ trace[i].ok
                /\ v.valid = WellFormed(trace[i].src)
                /\ ~v.valid => /\ v.variables = {} /\ v.functions = {}
                               /\ v.unknown_functions = {} /\ v.error # "none"
                /\ v.valid => /\ v.functions = CalledNames(trace[i].src)
                              /\ v.unknown_functions
                                   = CalledNames(trace[i].src) \ init_functions
                              /\ v.error = "none")
    /\ [][(Len(trace') = Len(trace) + 1 /\ trace'[Len(trace')].op = "validate_dsl")
            => engine' = engine]_vars

\* a text that calls a registered and an unregistered function was
\* validated, and so was a malformed text
C22_Witness ==
    \E i, j \in 1..Len(trace) :
        /\ trace[i].op = "validate_dsl" /\ trace[i].src = "abs(price) > foo(true)"
        /\ trace[i].val.functions = {"abs", "foo"}
        /\ trace[i].val.unknown_functions = {"foo"}
        /\ trace[i].val.variables = {"abs", "foo", "price"}
        /\ trace[j].op = "validate_dsl" /\ trace[j].src = "price >"
        /\ ~trace[j].val.valid

\* parse_dsl(text, md) fails at a node evaluate has no branch for, or at a
\* call of a name that is not a registered function
FailsOutsideAllowList(text, md) ==
    LET pc == PrepareContext(md)
        r  == evaluate(Parse(text).tree, pc.heap[pc.ref])
    IN  /\ pc.ok /\ Parse(text).ok /\ ~r.ok
        /\ \E k \in 1..Len(r.visited) : OutsideAllowList(r.visited[k])

\* C35 (as claimed): when validate_dsl has reported valid = true and no
\* unknown function for a text, parse_dsl of that text against any snapshot
\* does not fail with an unsupported-node or unknown-function error.
C35_ValidatedTextEvaluates ==
    \A i, j \in 1..Len(trace) :
        (/\ trace[i].op = "validate_dsl" /\ trace[j].op = "parse_dsl"
         /\ trace[j].src = trace[i].src
         /\ trace[i].val.valid /\ trace[i].val.unknown_functions = {}) =>
            ~FailsOutsideAllowList(trace[j].src, trace[j].context)

-----------------------------------------------------------------------------
(* Properties of the indicator functions (checked under SpecIndicators) *)

\* the returned number equals n / d
EqualsRatio(r, n, d) ==
    /\ r.ok
    /\ IF Tag(r.val) = "float" THEN r.val[3] # 0 /\ r.val[2] * d = n * r.val[3]
       ELSE IsNumeric(r.val) /\ AsInt(r.val) * d = n

\* the sum of the last n values of a series of at least n values
SumOfLast(series, n) == SumSeq(Trailing(series, n))

\* C26: sma(series, period) with period >= 1 never fails; it returns the mean
\* of the last `period` elements when len(series) >= period, the last element
\* when 0 < len(series) < period, and 0 when the series is empty.
C26_SmaOfTrailingWindow ==
    (ret.op = "sma" /\ context.period >= 1) =>
        LET prices == context.prices
            period == context.period
        IN  /\ ret.out.ok
            /\ Len(prices) >= period =>
                    EqualsRatio(ret.out, SumOfLast(prices, period), period)
            /\ (0 < Len(prices) /\ Len(prices) < period) =>
                    ret.out.val = prices[Len(prices)]
            /\ Len(prices) = 0 => ret.out.val = Num(0)

\* C26 witness: sma([1, 2, 3, 4, 5], 3) has returned 4.
C26_Witness ==
    /\ ret.op = "sma" /\ context.period = 3
    /\ context.prices = <<Num(1), Num(2), Num(3), Num(4), Num(5)>>
    /\ EqualsRatio(ret.out, 4, 1)

\* the true range of bar k (counted from 1): the largest of high - low,
\* |high - previous close| and |low - previous close|; the first bar has no
\* previous close and its true range is high - low
BarTrueRange(highs, lows, closes, k) ==
    LET hl == AsInt(highs[k]) - AsInt(lows[k]) IN
    IF k = 1 THEN hl
    ELSE Max3(hl, AbsInt(AsInt(highs[k]) - AsInt(closes[k - 1])),
                  AbsInt(AsInt(lows[k]) - AsInt(closes[k - 1])))

RECURSIVE SumTrueRanges(_, _, _, _, _)
\* the sum of the true ranges of bars from..to
SumTrueRanges(highs, lows, closes, from, to) ==
    IF from > to THEN 0
    ELSE BarTrueRange(highs, lows, closes, from)
            + SumTrueRanges(highs, lows, closes, from + 1, to)

\* C27 (as claimed): atr(highs, lows, closes, period) returns 0 if one of the
\* three series has fewer than `period` elements, and otherwise the sum of
\* the true ranges of the last `period` bars divided by `period`, also when
\* the series have exactly `period` elements.
C27_AtrMeanOfPeriodTrueRanges ==
    (ret.op = "atr" /\ context.period >= 1
        /\ Len(context.lows) = Len(context.highs)
        /\ Len(context.closes) = Len(context.highs)) =>
        LET n      == Len(context.highs)
            period == context.period
        IN  IF n < period THEN ret.out = Val(Num(0))
            ELSE EqualsRatio(ret.out,
                             SumTrueRanges(context.highs, context.lows, context.closes,
                                           n - period + 1, n),
                             period)

-----------------------------------------------------------------------------
(* Properties of Alert.is_valid (checked under SpecAlert) *)

\* C37 (as claimed): for every last_triggered and every cooldown_minutes >= 0
\* is_valid does not raise, and it returns false while now is earlier than
\* last_triggered plus cooldown_minutes minutes, also when
\* last_triggered.minute + cooldown_minutes exceeds 59.
C37_CooldownForEveryTimestamp ==
    (ret.op = "is_valid" /\ ~IsNone(context.last_triggered)
        /\ context.cooldown_minutes >= 0) =>
        /\ ret.out # "raise"
        /\ now < AsInt(context.last_triggered) + context.cooldown_minutes =>
                ret.out = "false"

-----------------------------------------------------------------------------
(* Properties of the snapshot handed to the engine (checked under SpecFrame) *)

FrameOps == {"check", "check_triggers", "parse_dsl"}

\* C20: when Trigger.check, TriggerManager.check_triggers or
\* DSLEngine.parse_dsl has returned or raised, the MarketSnapshot it was given
\* has exactly the keys and values it had before the call; the indicators
\* computed for a custom expression are in a private copy only.
C20_SnapshotNotMutated ==
    ret.op \in FrameOps =>
        /\ DOMAIN ret.after = DOMAIN ret.before
        /\ \A k \in DOMAIN ret.before : ret.after[k] = ret.before[k]

\* a custom expression that reads the indicator sma_20 was checked by the
\* manager against a snapshot with a price series and no sma_20 of its own,
\* and fired: the indicator was computed, and the snapshot does not have it
C20_Witness ==
    /\ ret.op = "check_triggers"
    /\ Has(ret.before, "prices") /\ ~Has(ret.before, "sma_20")
    /\ \E i \in 1..Len(triggers) :
          /\ triggers[i].trig.cls = "CustomDSLTrigger"
          /\ triggers[i].trig.params.dsl_expression = "sma_20 > 10"
          /\ triggers[i].trig.trigger_count > 0
    /\ ~Has(ret.after, "sma_20")

\* C36 (as claimed): parse_dsl adds a computed indicator to the evaluation
\* context only if the snapshot has none under that name: the expression
\* 'sma_20 > 10' sees the sma_20 the snapshot supplies.
C36_SuppliedIndicatorIsSeen ==
    (ret.op = "parse_dsl" /\ ret.text = "sma_20 > 10" /\ Has(ret.before, "sma_20")) =>
        /\ ret.out = "bool"
        /\ ret.value = Bool(AsInt(ret.before.sma_20) > 10)

-----------------------------------------------------------------------------
(* Properties of TriggerManager (checked under SpecManager, SpecHistory) *)

RegistryIds == [i \in 1..Len(triggers) |-> triggers[i].id]

RECURSIVE FiredIds(_)
FiredIds(log) ==
    IF log = <<>> THEN <<>>
    ELSE (IF log[1].out = "true" THEN <<log[1].id>> ELSE <<>>) \o FiredIds(Tail(log))

\* C2: check_triggers never lets an exception reach its caller; in one call
\* every registered trigger is checked exactly once, in registry order, also
\* after a trigger whose check raised; the returned list holds one event for
\* each trigger that fired and none for one that raised or did not fire, and
\* those events are the newest entries of trigger_history.
C2_CheckTriggersIsolatesFailures ==
    ret.op = "check_triggers" =>
        /\ ~ret.raised
        /\ [i \in 1..Len(ret.log) |-> ret.log[i].id] = RegistryIds
        /\ [i \in 1..Len(ret.triggered) |-> ret.triggered[i].trigger_id]
              = FiredIds(ret.log)
        /\ \A i \in 1..Len(ret.triggered) :
              /\ ret.triggered[i].timestamp = now - TickSeconds
              /\ ret.triggered[i].trigger_type
                    = triggers[IndexOf(triggers, ret.triggered[i].trigger_id)].trig.trigger_type
        /\ Len(trigger_history) >= Len(ret.triggered)
        /\ SubSeq(trigger_history,
                  Len(trigger_history) - Len(ret.triggered) + 1,
                  Len(trigger_history)) = ret.triggered

\* a tick in which one trigger raised and a trigger after it fired
C2_Witness ==
    /\ ret.op = "check_triggers"
    /\ \E i, j \in 1..Len(ret.log) :
          i < j /\ ret.log[i].out = "raise" /\ ret.log[j].out = "true"
    /\ Len(ret.triggered) = 1

\* C3: trigger_history never holds more than max_history_size events, and it
\* is the run of the most recent min(n, max_history_size) of the n events
\* emitted so far, oldest first.
C3_HistoryIsNewestThousand ==
    LET n == Len(fired_log)
        m == IF n < max_history_size THEN n ELSE max_history_size
    IN  /\ Len(trigger_history) <= max_history_size
        /\ trigger_history = SubSeq(fired_log, n - m + 1, n)

\* 1,050 events were emitted: the first 50 are gone, the last 1,000 remain
C3_Witness ==
    /\ Len(fired_log) = max_history_size + 50
    /\ Len(trigger_history) = max_history_size
    /\ trigger_history[1] = fired_log[51]
    /\ trigger_history[max_history_size] = fired_log[max_history_size + 50]

\* the triggers the factory builds, as built
FreshTriggers == {create_trigger(c).t : c \in MgrConfigs}

\* C15: at most one trigger is registered under an id and check_triggers checks
\* it once; a successful add_trigger leaves under its id exactly the newly
\* built trigger in its initial state (in the place of the one it replaces, if
\* any), leaves the other triggers as they were and leaves the history alone.
C15_AddTriggerOverwrites ==
    /\ [](\A i, j \in 1..Len(triggers) : triggers[i].id = triggers[j].id => i = j)
    /\ [](ret.op = "check_triggers" =>
            \A i, j \in 1..Len(ret.log) : ret.log[i].id = ret.log[j].id => i = j)
    /\ [][(ret'.op = "add_trigger" /\ ~ret'.raised) =>
            /\ ret'.id \in Ids(triggers')
            /\ LET t == triggers'[IndexOf(triggers', ret'.id)].trig IN
                  /\ t \in FreshTriggers
                  /\ t.trigger_count = 0 /\ t.last_triggered = None
                  /\ t.prev_macd = None /\ t.prev_signal = None
                  /\ t.confirmation_count = 0
            /\ Len(triggers') = Len(triggers) + (IF ret'.id \in Ids(triggers) THEN 0 ELSE 1)
            /\ \A i \in 1..Len(triggers) :
                  triggers[i].id # ret'.id => triggers'[i] = triggers[i]
            /\ trigger_history' = trigger_history
         ]_vars

\* C15 witness: an id whose trigger fired now holds a fresh trigger of another
\* type, next to a second trigger, and the event is still in the history
C15_Witness ==
    /\ ret.op = "add_trigger" /\ ~ret.raised
    /\ Len(triggers) = 2
    /\ \E i \in 1..Len(trigger_history) :
          /\ trigger_history[i].trigger_id = ret.id
          /\ trigger_history[i].trigger_type
                # triggers[IndexOf(triggers, ret.id)].trig.trigger_type
    /\ triggers[IndexOf(triggers, ret.id)].trig.trigger_count = 0

\* the registry without the entry of an id
Without(reg, trigger_id) ==
    LET Keep(e) == e.id # trigger_id IN SelectSeq(reg, Keep)

\* C16: remove_trigger returns true iff the id was registered; afterwards the
\* id is not registered, every other trigger is registered as before, in the
\* same order, and the history is as before; on an id that is not registered
\* (so also on a second call) it returns false and changes nothing.
C16_RemoveTriggerIdempotent ==
    [][ret'.op = "remove_trigger" =>
        /\ ret'.value = (ret'.id \in Ids(triggers))
        /\ ret'.id \notin Ids(triggers')
        /\ triggers' = Without(triggers, ret'.id)
        /\ ret'.id \notin Ids(triggers) => triggers' = triggers
        /\ Without(triggers', ret'.id) = triggers'
        /\ trigger_history' = trigger_history
      ]_vars

\* C16 witness: a call returned false on an id that was registered (it fired)
\* and is no longer, while another trigger is still registered
C16_Witness ==
    /\ ret.op = "remove_trigger" /\ ~ret.value
    /\ ret.id \notin Ids(triggers)
    /\ triggers # <<>>
    /\ \E i \in 1..Len(trigger_history) : trigger_history[i].trigger_id = ret.id

RECURSIVE SumOver(_, _)
SumOver(f, S) ==
    IF S = {} THEN 0
    ELSE LET x == CHOOSE y \in S : TRUE IN f[x] + SumOver(f, S \ {x})

\* C17: get_trigger_stats reports the number of registered ids, for every
\* registered id its trigger's trigger_count, per-type counts that add up to
\* the number of registered ids, and the newest min(10, |history|) events of
\* the history in firing order; the call leaves registry and history alone.
C17_StatsReflectState ==
    /\ [](ret.op = "get_trigger_stats" =>
            LET st == ret.value
                n  == Len(trigger_history)
                m  == IF n < 10 THEN n ELSE 10
            IN  /\ st.total_triggers = Cardinality(Ids(triggers))
                /\ DOMAIN st.trigger_counts = Ids(triggers)
                /\ \A i \in 1..Len(triggers) :
                      st.trigger_counts[triggers[i].id] = triggers[i].trig.trigger_count
                /\ SumOver(st.trigger_types, DOMAIN st.trigger_types) = st.total_triggers
                /\ \A ty \in DOMAIN st.trigger_types :
                      st.trigger_types[ty]
                        = Cardinality({i \in 1..Len(triggers) :
                                          triggers[i].trig.trigger_type = ty})
                /\ st.recent_triggers = SubSeq(trigger_history, n - m + 1, n))
    /\ [][ret'.op = "get_trigger_stats" =>
            (triggers' = triggers /\ trigger_history' = trigger_history)]_vars

\* C17 witness: statistics of two triggers of different types that fired
\* different numbers of times, with more than 10 events in the history
C17_Witness ==
    /\ ret.op = "get_trigger_stats"
    /\ Len(trigger_history) > 10
    /\ Len(ret.value.recent_triggers) = 10
    /\ ret.value.total_triggers = 2
    /\ Cardinality(DOMAIN ret.value.trigger_types) = 2

\* the ids of the registry, in its order
IdSeq(reg) == [i \in 1..Len(reg) |-> reg[i].id]

\* C23: the set of registered ids changes only through add_trigger and
\* remove_trigger.  check_triggers, get_trigger_stats and reset_trigger add
\* and remove no entry; a trigger that fired or whose check raised stays
\* registered; only an explicit reset clears a last_triggered, and only that
\* of the trigger it names.
C23_RegistryChangesOnlyByAddRemove ==
    [][/\ ret'.op \in {"check_triggers", "get_trigger_stats", "reset_trigger"} =>
            IdSeq(triggers') = IdSeq(triggers)
       /\ ret'.op \in {"check_triggers", "get_trigger_stats"} =>
            \A i \in 1..Len(triggers) :
                ~IsNone(triggers[i].trig.last_triggered) =>
                    ~IsNone(triggers'[i].trig.last_triggered)
       /\ ret'.op = "reset_trigger" =>
            \A i \in 1..Len(triggers) :
                triggers[i].id # ret'.id => triggers'[i].trig = triggers[i].trig
      ]_vars

\* check_triggers has just checked a trigger that raised and one that had
\* fired before and did not fire now; both are registered, and the one that
\* had fired still has its last_triggered
C23_Witness ==
    /\ ret.op = "check_triggers"
    /\ Len(triggers) = 2 /\ Len(ret.log) = 2
    /\ \E i, j \in 1..2 :
          /\ ret.log[i].out = "raise" /\ triggers[i].id = ret.log[i].id
          /\ ret.log[j].out = "false" /\ triggers[j].id = ret.log[j].id
          /\ ~IsNone(triggers[j].trig.last_triggered)

\* C31: an add_trigger that fails because the factory rejects the config
\* leaves the manager as it was: the same ids mapped to the same triggers in
\* the same state (the one under the id of the call included) and the same
\* history.
C31_FailedAddChangesNothing ==
    /\ [](\A c \in MgrBadConfigs : ~create_trigger(c).ok)
    /\ [][(ret'.op = "add_trigger" /\ ret'.raised) =>
            /\ triggers' = triggers
            /\ trigger_history' = trigger_history]_vars

\* C31 witness: a rejected add_trigger on an id whose trigger has fired: the
\* trigger is still registered with its count and the event is in the history.
C31_Witness ==
    /\ ret.op = "add_trigger" /\ ret.raised
    /\ ret.id \in Ids(triggers)
    /\ triggers[IndexOf(triggers, ret.id)].trig.trigger_count > 0
    /\ \E i \in 1..Len(trigger_history) : trigger_history[i].trigger_id = ret.id

=============================================================================
